---- MODULE Spec2Model ----
(***************************************************************************)
(* Item Tweaker: a model of the record-transformation engine.              *)
(*                                                                         *)
(*   Applicator  (src/src/applicator.ts)       type-guarded set/multiply   *)
(*   Query       (src/unnamed/part_003:397-550) predicate evaluation       *)
(*   ItemTweaker (src/unnamed/part_002)         the apply pass             *)
(*                                                                         *)
(* JavaScript values are tagged records.  Composite values (arrays and     *)
(* objects) live in a heap and are held by reference, so that `===` is     *)
(* reference identity and a write through one holder is seen by all.       *)
(* Strings are sequences of one-character strings, property paths are      *)
(* sequences of segments (the result of split(".")).                       *)
(***************************************************************************)
EXTENDS Integers, Sequences, FiniteSets, TLC

VARIABLES
    heap,       \* address -> object: every composite value of the run
    pc,         \* position of the running operation
    inp,        \* the inputs of the run (configuration, record collection)
    out,        \* results returned so far
    hist        \* what has been applied so far (observation only)

vars == <<heap, pc, inp, out, hist>>

(***************************************************************************)
(* Values                                                                  *)
(***************************************************************************)
Undef == [t |-> "undefined"]
Null == [t |-> "null"]
NaNv == [t |-> "nan"]
Bool(b) == [t |-> "boolean", b |-> b]
Num(n) == [t |-> "number", n |-> n]
Str(s) == [t |-> "string", v |-> s]
Ref(a) == [t |-> "ref", a |-> a]

Obj(f) == [arr |-> FALSE, f |-> f]
Arr(f) == [arr |-> TRUE, f |-> f]
NoFields == [k \in {} |-> Undef]

\* typeof: null, arrays and objects are all "object"; NaN is a "number".
TypeOf(v) ==
    CASE v.t = "undefined" -> "undefined"
      [] v.t = "null" -> "object"
      [] v.t = "ref" -> "object"
      [] v.t = "nan" -> "number"
      [] v.t \in {"array", "object"} -> "object"
      [] OTHER -> v.t

\* The type of a value in the data model of the specification:
\* null, boolean, number, string, array, tree.
ModelType(h, v) ==
    CASE v.t = "ref" -> IF h[v.a].arr THEN "array" ELSE "tree"
      [] v.t = "nan" -> "number"
      [] OTHER -> v.t

\* a === b
StrictEq(a, b) ==
    /\ a.t = b.t
    /\ CASE a.t \in {"undefined", "null"} -> TRUE
         [] a.t = "nan" -> FALSE
         [] a.t = "ref" -> a.a = b.a
         [] OTHER -> a = b

\* a == null
IsNullish(v) == v.t \in {"undefined", "null"}

\* targetObj[head] for a non-null object
Field(h, v, key) ==
    IF key \in DOMAIN h[v.a].f THEN h[v.a].f[key] ELSE Undef

\* JSON.stringify(a) === JSON.stringify(b): NaN prints as null, composites
\* print their contents (the keys of two compared objects are taken to be
\* listed in the same order).
RECURSIVE SameJSON(_, _, _)
SameJSON(h, a, b) ==
    LET tag(v) == IF v.t \in {"null", "nan"} THEN "null" ELSE v.t IN
    /\ tag(a) = tag(b)
    /\ CASE tag(a) \in {"null", "undefined"} -> TRUE
         [] tag(a) = "ref" ->
              /\ h[a.a].arr = h[b.a].arr
              /\ DOMAIN h[a.a].f = DOMAIN h[b.a].f
              /\ \A k \in DOMAIN h[a.a].f : SameJSON(h, h[a.a].f[k], h[b.a].f[k])
         [] OTHER -> a = b

\* The contents of a value, with every reference followed (observation only).
RECURSIVE Deep(_, _)
Deep(h, v) ==
    IF v.t = "ref"
    THEN [t |-> IF h[v.a].arr THEN "array" ELSE "tree",
          f |-> [k \in DOMAIN h[v.a].f |-> Deep(h, h[v.a].f[k])]]
    ELSE v

(***************************************************************************)
(* Applicator                                                              *)
(***************************************************************************)
Thrown == [thrown |-> TRUE]
Ret(v) == [thrown |-> FALSE, val |-> v]

\* getNestedProperty that answers undefined where a segment is missing.
RECURSIVE getNestedPropertyLenient(_, _, _)
getNestedPropertyLenient(h, targetObj, propertyPath) ==
    IF targetObj.t = "undefined" THEN Ret(Undef)
    ELSE IF TypeOf(targetObj) # "object" THEN Thrown
    ELSE IF targetObj.t = "null" THEN Thrown
    ELSE IF Len(propertyPath) = 1 THEN Ret(Field(h, targetObj, Head(propertyPath)))
    ELSE getNestedPropertyLenient(h, Field(h, targetObj, Head(propertyPath)),
                                  Tail(propertyPath))

RECURSIVE getNestedProperty(_, _, _)
getNestedProperty(h, targetObj, propertyPath) ==
    IF TypeOf(targetObj) # "object" THEN Thrown
    ELSE IF targetObj.t = "null" THEN Thrown        \* null[head]: TypeError
    ELSE IF Len(propertyPath) = 1 THEN Ret(Field(h, targetObj, Head(propertyPath)))
    ELSE getNestedProperty(h, Field(h, targetObj, Head(propertyPath)), Tail(propertyPath))

\* setNestedProperty that writes under the first segment of the path.
setNestedPropertyShallow(h, targetObj, propertyPath, value) ==
    IF TypeOf(targetObj) # "object" THEN Thrown
    ELSE IF targetObj.t = "null" THEN Thrown
    ELSE Ret([h EXCEPT ![targetObj.a].f =
                 [k \in DOMAIN @ \cup {Head(propertyPath)} |->
                     IF k = Head(propertyPath) THEN value ELSE @[k]]])

\* The heap after the write, or Thrown.
RECURSIVE setNestedProperty(_, _, _, _)
setNestedProperty(h, targetObj, propertyPath, value) ==
    IF TypeOf(targetObj) # "object" THEN Thrown
    ELSE IF targetObj.t = "null" THEN Thrown
    ELSE IF Len(propertyPath) = 1
         THEN Ret([h EXCEPT ![targetObj.a].f =
                      [k \in DOMAIN @ \cup {Head(propertyPath)} |->
                          IF k = Head(propertyPath) THEN value ELSE @[k]]])
    ELSE setNestedProperty(h, Field(h, targetObj, Head(propertyPath)), Tail(propertyPath), value)

\* A source object (a `multiply` or `set` mapping): kind "undefined", "null",
\* "other" (not a plain object) or "object" with its entries in key order.
NoSource == [kind |-> "undefined", e |-> <<>>]
Source(e) == [kind |-> "object", e |-> e]
Entry(k, v) == [k |-> k, v |-> v]
Keys(sourceObj) == [i \in 1..Len(sourceObj.e) |-> sourceObj.e[i].k]
InSeq(x, s) == \E i \in 1..Len(s) : s[i] = x

\* sourceObj[parameter]
Lookup(sourceObj, parameter) ==
    IF \E i \in 1..Len(sourceObj.e) : sourceObj.e[i].k = parameter
    THEN sourceObj.e[CHOOSE i \in 1..Len(sourceObj.e) : sourceObj.e[i].k = parameter].v
    ELSE Undef

canApplyValue(h, targetObj, sourceObj, parameter) ==
    LET check(got, newValue) ==
            IF got.thrown THEN FALSE
            ELSE IF got.val.t # "undefined"
                 THEN TypeOf(got.val) = TypeOf(newValue)
                 ELSE FALSE
    IN  check(getNestedProperty(h, targetObj, parameter), Lookup(sourceObj, parameter))

canApplyMultiplier(h, targetObj, sourceObj, parameter) ==
    LET check(got, multiplier) ==
            IF got.thrown THEN FALSE
            ELSE IF multiplier.t # "number" THEN FALSE
            ELSE IF got.val.t # "undefined"
                 THEN got.val.t = "number"
                 ELSE FALSE
    IN  check(getNestedProperty(h, targetObj, parameter), Lookup(sourceObj, parameter))

canApplyAnyChanges(h, targetObj, sourceObj, changeType) ==
    \E i \in 1..Len(sourceObj.e) :
        IF changeType = "MULTIPLY"
        THEN canApplyMultiplier(h, targetObj, sourceObj, sourceObj.e[i].k)
        ELSE canApplyValue(h, targetObj, sourceObj, sourceObj.e[i].k)

\* The applicators return the heap after the call and the number of changes
\* (log: the keys whose application returned 1, for observation).
Applied(h, n, log) == [h |-> h, n |-> n, log |-> log]

\* tryToApplyValue without the comparison of the old and the new value.
tryToApplyValueAlways(h, targetObj, sourceObj, parameter) ==
    IF canApplyValue(h, targetObj, sourceObj, parameter)
    THEN Applied(setNestedProperty(h, targetObj, parameter,
                                   Lookup(sourceObj, parameter)).val, 1, <<parameter>>)
    ELSE Applied(h, 0, <<>>)

\* tryToApplyValue that also writes a property the target does not have.
tryToApplyValueUnguarded(h, targetObj, sourceObj, parameter) ==
    LET write(got, put) ==
            IF canApplyValue(h, targetObj, sourceObj, parameter)
               \/ (~got.thrown /\ got.val.t = "undefined" /\ ~put.thrown)
            THEN Applied(put.val, 1, <<parameter>>)
            ELSE Applied(h, 0, <<>>)
    IN  write(getNestedProperty(h, targetObj, parameter),
              setNestedProperty(h, targetObj, parameter, Lookup(sourceObj, parameter)))

tryToApplyValue(h, targetObj, sourceObj, parameter) ==
    LET apply(newValue, oldValue) ==
            IF ~StrictEq(oldValue, newValue)
            THEN Applied(setNestedProperty(h, targetObj, parameter, newValue).val, 1,
                         <<parameter>>)
            ELSE Applied(h, 0, <<>>)
    IN  IF canApplyValue(h, targetObj, sourceObj, parameter)
        THEN apply(Lookup(sourceObj, parameter),
                   getNestedProperty(h, targetObj, parameter).val)
        ELSE Applied(h, 0, <<>>)

\* tryToApplyMultiplier writing the multiplier in place of the product.
tryToApplyMultiplierOverwrite(h, targetObj, sourceObj, parameter) ==
    IF canApplyMultiplier(h, targetObj, sourceObj, parameter)
    THEN Applied(setNestedProperty(h, targetObj, parameter,
                                   Lookup(sourceObj, parameter)).val, 1, <<parameter>>)
    ELSE Applied(h, 0, <<>>)

tryToApplyMultiplier(h, targetObj, sourceObj, parameter) ==
    LET written(oldValue, h2) ==
            Applied(h2,
                    IF ~StrictEq(oldValue, getNestedProperty(h2, targetObj, parameter).val)
                    THEN 1 ELSE 0,
                    IF ~StrictEq(oldValue, getNestedProperty(h2, targetObj, parameter).val)
                    THEN <<parameter>> ELSE <<>>)
        apply(multiplier, oldValue) ==
            written(oldValue,
                    setNestedProperty(h, targetObj, parameter,
                                      Num(oldValue.n * multiplier.n)).val)
    IN  IF canApplyMultiplier(h, targetObj, sourceObj, parameter)
        THEN apply(Lookup(sourceObj, parameter),
                   getNestedProperty(h, targetObj, parameter).val)
        ELSE Applied(h, 0, <<>>)

\* for (const parameter in sourceObj) changeCounter += tryToApply...(...),
\* from entry i on.
RECURSIVE ApplyFrom(_, _, _, _, _)
ApplyFrom(h, targetObj, sourceObj, changeType, i) ==
    LET sum(one, rest) == Applied(rest.h, one.n + rest.n, one.log \o rest.log)
        then(one) == sum(one, ApplyFrom(one.h, targetObj, sourceObj, changeType, i + 1))
    IN  IF i > Len(sourceObj.e) THEN Applied(h, 0, <<>>)
        ELSE then(IF changeType = "MULTIPLY"
                  THEN tryToApplyMultiplier(h, targetObj, sourceObj, sourceObj.e[i].k)
                  ELSE tryToApplyValue(h, targetObj, sourceObj, sourceObj.e[i].k))

\* tryToApplyAllChanges leaving the loop at the first entry that returns 0.
tryToApplyAllChangesUntilRejected(h, targetObj, sourceObj, changeType) ==
    LET sum(one, rest) == Applied(rest.h, one.n + rest.n, one.log \o rest.log)
        then(one) ==
            IF one.n = 0 THEN one
            ELSE sum(one, ApplyFrom(one.h, targetObj, sourceObj, changeType, 2))
    IN  IF Len(sourceObj.e) = 0 THEN Applied(h, 0, <<>>)
        ELSE then(IF changeType = "MULTIPLY"
                  THEN tryToApplyMultiplier(h, targetObj, sourceObj, sourceObj.e[1].k)
                  ELSE tryToApplyValue(h, targetObj, sourceObj, sourceObj.e[1].k))

tryToApplyAllChanges(h, targetObj, sourceObj, changeType) ==
    ApplyFrom(h, targetObj, sourceObj, changeType, 1)

\* A new object holding the entries of obj whose key passes the predicate
\* (the predicate as its value on each key of obj).
filterObjectProperties(obj, predicate) ==
    Source(SelectSeq(obj.e, LAMBDA x : predicate[x.k]))

(***************************************************************************)
(* Query                                                                   *)
(*                                                                         *)
(* An expression is what the configuration file holds at that place: null, *)
(* a primitive, or an object [t |-> "object"] with the fields key,         *)
(* operation, values, negation, strict, condition and expressions, each    *)
(* Undef when the object does not have it.  A list is                      *)
(* [t |-> "array", v |-> <<...>>].                                         *)
(***************************************************************************)
List(s) == [t |-> "array", v |-> s]
Prop(obj, name) == IF obj.t = "object" THEN obj[name] ELSE Undef
IsArray(v) == v.t = "array"

\* The truth value of v in a condition.
Truthy(v) ==
    CASE v.t \in {"undefined", "null", "nan"} -> FALSE
      [] v.t = "boolean" -> v.b
      [] v.t = "number" -> v.n # 0
      [] v.t = "string" -> v.v # <<>> /\ v.v # ""
      [] OTHER -> TRUE

\* v ?? d
Default(v, d) == IF IsNullish(v) THEN d ELSE v

\* Keys of the model that begin with an underscore.
UnderscoreKeys == {"_id", "_name", "_type", "_props"}

\* propertyName.charAt(0) === "_"
isPrivateProperty(propertyName) ==
    IF propertyName.t # "string" THEN Thrown
    ELSE Ret(propertyName.v # <<>> /\ Head(propertyName.v) \in UnderscoreKeys)

isBasicExpression(targetObj) ==
    IF /\ ~IsNullish(targetObj)
       /\ TypeOf(Prop(targetObj, "key")) = "string"
       /\ TypeOf(Prop(targetObj, "operation")) = "string"
    THEN Ret(TRUE)
    ELSE IF IsNullish(targetObj) THEN Thrown    \* null.operation: TypeError
    ELSE Ret(\/ /\ TypeOf(Prop(targetObj, "operation")) = "undefined"
                /\ TypeOf(Prop(targetObj, "negation")) = "boolean"
             \/ /\ TypeOf(Prop(targetObj, "negation")) = "undefined"
                /\ TypeOf(Prop(targetObj, "strict")) = "boolean"
             \/ /\ TypeOf(Prop(targetObj, "strict")) = "undefined"
                /\ IsArray(Prop(targetObj, "values")))

isLogicalExpression(targetObj) ==
    IF IsNullish(targetObj) THEN Thrown         \* null.negation: TypeError
    ELSE Ret(\/ /\ Prop(targetObj, "condition").t = "string"
                /\ Prop(targetObj, "condition").v \in {"and", "or"}
                /\ TypeOf(Prop(targetObj, "negation")) = "boolean"
             \/ /\ TypeOf(Prop(targetObj, "negation")) = "undefined"
                /\ IsArray(Prop(targetObj, "expressions")))

RECURSIVE isQuery(_)
RECURSIVE EveryIsQuery(_, _)
\* expressions.every(expression => this.isQuery(expression)), from index i
EveryIsQuery(expressions, i) ==
    LET then(one) ==
            IF one.thrown THEN Thrown
            ELSE IF ~one.val THEN Ret(FALSE)
            ELSE EveryIsQuery(expressions, i + 1)
    IN  IF i > Len(expressions) THEN Ret(TRUE)
        ELSE then(isQuery(expressions[i]))

isQuery(targetObj) ==
    LET decide(isBasicExpr, isLogicExpr) ==
            IF isBasicExpr.thrown \/ isLogicExpr.thrown THEN Thrown
            ELSE IF isBasicExpr.val /\ isLogicExpr.val THEN Ret(FALSE)
            ELSE IF isBasicExpr.val THEN Ret(TRUE)
            ELSE IF isLogicExpr.val
                 THEN IF ~IsArray(Prop(targetObj, "expressions")) THEN Thrown
                      ELSE EveryIsQuery(Prop(targetObj, "expressions").v, 1)
            ELSE Ret(FALSE)
    IN  decide(isBasicExpression(targetObj), isLogicalExpression(targetObj))

\* new RegExp(value).test(propValue) and its anchored forms, for patterns
\* made of plain characters and of ".", which stands for any character.
Matches(pattern, s) ==
    /\ Len(pattern) = Len(s)
    /\ \A i \in 1..Len(s) : pattern[i] = "." \/ pattern[i] = s[i]
StartsWith(s, pre) == Len(pre) <= Len(s) /\ Matches(pre, SubSeq(s, 1, Len(pre)))
EndsWith(s, suf) ==
    Len(suf) <= Len(s) /\ Matches(suf, SubSeq(s, Len(s) - Len(suf) + 1, Len(s)))
Contains(s, sub) ==
    \E i \in 0..(Len(s) - Len(sub)) : Matches(sub, SubSeq(s, i + 1, i + Len(sub)))

\* values.every(test) or values.some(test), from the outcome of test on
\* each value
Test(strict, tested) ==
    IF strict THEN \A i \in 1..Len(tested) : tested[i]
    ELSE \E i \in 1..Len(tested) : tested[i]

\* TestValue with the two comparisons made inclusive.
TestValueInclusive(h, operation, propValue, value) ==
    CASE operation = "equals" -> SameJSON(h, propValue, value)
      [] operation = "contains" -> Contains(propValue.v, value.v)
      [] operation = "starts_with" -> StartsWith(propValue.v, value.v)
      [] operation = "ends_with" -> EndsWith(propValue.v, value.v)
      [] operation = "greater_than" -> propValue.t = "number" /\ propValue.n >= value.n
      [] operation = "less_than" -> propValue.t = "number" /\ propValue.n <= value.n

\* operation applied to propValue and one of the values
TestValue(h, operation, propValue, value) ==
    CASE operation = "equals" -> SameJSON(h, propValue, value)
      [] operation = "contains" -> Contains(propValue.v, value.v)
      [] operation = "starts_with" -> StartsWith(propValue.v, value.v)
      [] operation = "ends_with" -> EndsWith(propValue.v, value.v)
      [] operation = "greater_than" -> propValue.t = "number" /\ propValue.n > value.n
      [] operation = "less_than" -> propValue.t = "number" /\ propValue.n < value.n

\* The operations the switch on propType reaches a test function for.
OperationsOf(propType) ==
    CASE propType = "string" -> {"contains", "starts_with", "ends_with"}
      [] propType = "number" -> {"greater_than", "less_than"}
      [] OTHER -> {}

evaluateBasicExpression(h, expression, targetObj) ==
    LET test(values, operation, negation, strict, propValue, propType, isArr) ==
            IF IsNullish(propValue) THEN Ret(FALSE)
            ELSE IF ~IsArray(values) THEN Ret(negation)     \* values.some: TypeError
            ELSE IF (\E i \in 1..Len(values.v) : propType # TypeOf(values.v[i])) /\ ~isArr
                 THEN Ret(negation)
            ELSE IF operation.t = "string"
                    /\ operation.v \in {"equals"} \cup OperationsOf(propType)
                 THEN Ret(negation #
                          Test(strict,
                               [i \in 1..Len(values.v) |->
                                   TestValue(h, operation.v, propValue, values.v[i])]))
            ELSE Ret(negation)
        try(got, values, operation, negation, strict) ==
            IF got.thrown THEN Ret(negation)        \* catch: negation ? true : false
            ELSE test(values, operation, negation, strict, got.val, TypeOf(got.val),
                      got.val.t = "ref" /\ h[got.val.a].arr)
        resolve(key, values, operation, negation, strict) ==
            try(IF key.t = "string" /\ key.v # <<>>
                THEN getNestedProperty(h, targetObj, key.v) ELSE Thrown,
                values, operation, negation, strict)
    IN  resolve(Prop(expression, "key"), Prop(expression, "values"),
                Default(Prop(expression, "operation"), Str("equals")),
                Truthy(Default(Prop(expression, "negation"), Bool(FALSE))),
                Truthy(Default(Prop(expression, "strict"), Bool(FALSE))))

RECURSIVE evaluateQuery(_, _, _)
RECURSIVE EvalFrom(_, _, _, _, _)
\* expressions.every / expressions.some over evaluateQuery, from index i:
\* stops at the first child that decides the result, or that throws.
EvalFrom(h, expressions, targetObj, isAnd, i) ==
    LET then(one) ==
            IF one.thrown THEN Thrown
            ELSE IF one.val # isAnd THEN Ret(one.val)
            ELSE EvalFrom(h, expressions, targetObj, isAnd, i + 1)
    IN  IF i > Len(expressions) THEN Ret(isAnd)
        ELSE then(evaluateQuery(h, expressions[i], targetObj))

evaluateLogicalExpression(h, expression, targetObj) ==
    LET negate(negation, result) ==
            IF result.thrown THEN Thrown
            ELSE Ret(IF negation THEN ~result.val ELSE result.val)
        reduce(negation, condition, expressions) ==
            negate(negation,
                   IF IsArray(expressions)
                   THEN EvalFrom(h, expressions.v, targetObj,
                                 condition.t = "string" /\ condition.v = "and", 1)
                   ELSE Thrown)
    IN  reduce(Truthy(Default(Prop(expression, "negation"), Bool(FALSE))),
               Prop(expression, "condition"), Prop(expression, "expressions"))

evaluateQuery(h, query, targetObj) ==
    LET dispatch(q, isLogic, priv) ==
            IF q.thrown THEN Thrown
            ELSE IF ~q.val THEN Thrown      \* "Wrong expression object structure."
            ELSE IF isLogic.val THEN evaluateLogicalExpression(h, query, targetObj)
            ELSE IF priv.thrown THEN Thrown
            ELSE IF ~priv.val /\ IsNullish(targetObj) THEN Thrown
            ELSE evaluateBasicExpression(h, query,
                     IF priv.val THEN targetObj
                     ELSE IF targetObj.t = "ref" THEN Field(h, targetObj, "_props")
                     ELSE Undef)
    IN  dispatch(isQuery(query), isLogicalExpression(query),
                 isPrivateProperty(Prop(query, "key")))

(***************************************************************************)
(* ItemTweaker                                                             *)
(*                                                                         *)
(* dbItems is [keys |-> the ids in Object.keys order, at |-> id -> item].  *)
(* A selector is [query, multiply, set, priority]; an overwrite is         *)
(* [multiply, set].                                                        *)
(***************************************************************************)
ItemStr == <<"I", "t", "e", "m">>

ItemField(h, item, key) == IF item.t = "ref" THEN Field(h, item, key) ELSE Undef

isValidItem(h, item) ==
    /\ ~IsNullish(item)
    /\ StrictEq(ItemField(h, item, "_type"), Str(ItemStr))
    /\ ~IsNullish(ItemField(h, item, "_props"))
    /\ ~IsNullish(ItemField(h, item, "_name"))

\* Object.keys(dbItems).filter(itemId => validatorFunc(dbItems[itemId]) &&
\*     Query.evaluateQuery(selector.query, dbItems[itemId])), from key i on.
RECURSIVE MatchingFrom(_, _, _, _)
MatchingFrom(h, dbItems, selector, i) ==
    LET filter(itemId, ev, rest) ==
            IF ev.thrown \/ rest.thrown THEN Thrown
            ELSE Ret((IF ev.val THEN <<itemId>> ELSE <<>>) \o rest.val)
        visit(itemId, item) ==
            filter(itemId,
                   IF isValidItem(h, item) THEN evaluateQuery(h, selector.query, item)
                   ELSE Ret(FALSE),
                   MatchingFrom(h, dbItems, selector, i + 1))
    IN  IF i > Len(dbItems.keys) THEN Ret(<<>>)
        ELSE visit(dbItems.keys[i], dbItems.at[dbItems.keys[i]])

\* getMatchingItemIds without the validator: the ids whose item satisfies
\* the query.
getMatchingItemIdsUnvalidated(h, dbItems, selector) ==
    IF \E i \in 1..Len(dbItems.keys) :
           evaluateQuery(h, selector.query, dbItems.at[dbItems.keys[i]]).thrown
    THEN Thrown
    ELSE Ret(SelectSeq(dbItems.keys,
                       LAMBDA itemId : evaluateQuery(h, selector.query, dbItems.at[itemId]).val))

getMatchingItemIds(h, dbItems, selector) == MatchingFrom(h, dbItems, selector, 1)

RECURSIVE AffectedFrom(_, _, _, _)
AffectedFrom(h, dbItems, selector, i) ==
    LET filter(itemId, properties, ev, rest) ==
            IF ev.thrown \/ rest.thrown THEN Thrown
            ELSE IF ~ev.val THEN rest
            ELSE IF \/ canApplyAnyChanges(h, properties, selector.multiply, "MULTIPLY")
                    \/ canApplyAnyChanges(h, properties, selector.set, "SET_VALUE")
                 THEN Ret(<<itemId>> \o rest.val)
            ELSE rest
        visit(itemId, item) ==
            IF IsNullish(item) THEN Thrown          \* item._props: TypeError
            ELSE filter(itemId, ItemField(h, item, "_props"),
                        IF isValidItem(h, item) THEN evaluateQuery(h, selector.query, item)
                        ELSE Ret(FALSE),
                        AffectedFrom(h, dbItems, selector, i + 1))
    IN  IF i > Len(dbItems.keys) THEN Ret(<<>>)
        ELSE visit(dbItems.keys[i], dbItems.at[dbItems.keys[i]])

\* getAffectedItemIds without the test of canApplyAnyChanges.
getAffectedItemIdsUntested(h, dbItems, selector) == MatchingFrom(h, dbItems, selector, 1)

getAffectedItemIds(h, dbItems, selector) == AffectedFrom(h, dbItems, selector, 1)

\* [...new Set(s)]: the first occurrence of every element, in order.
RECURSIVE Dedup(_)
Dedup(s) ==
    IF s = <<>> THEN <<>>
    ELSE LET init == Dedup(SubSeq(s, 1, Len(s) - 1))
         IN  IF InSeq(s[Len(s)], init) THEN init ELSE Append(init, s[Len(s)])

\* Object.keys(m ?? {}) for a mapping read from the configuration.
KeysOrEmpty(sourceObj) == IF sourceObj.kind = "object" THEN Keys(sourceObj) ELSE <<>>

InvalidMetaData ==
    [matchingIds |-> <<>>, affectedIds |-> <<>>, changedProperties |-> <<>>,
     priority |-> Undef, isValid |-> FALSE]

getSelectorMetaData(h, dbItems, selector) ==
    LET notObject(m) == m.kind = "null" \/ m.kind = "other"
        collect(matchingItemIds, affectedItemIds) ==
            IF matchingItemIds.thrown \/ affectedItemIds.thrown THEN Thrown
            ELSE Ret([matchingIds |-> matchingItemIds.val,
                      affectedIds |-> affectedItemIds.val,
                      changedProperties |->
                          Dedup(KeysOrEmpty(selector.multiply) \o KeysOrEmpty(selector.set)),
                      priority |-> selector.priority,
                      isValid |-> TRUE])
        validate(q) ==
            IF q.thrown THEN Thrown
            ELSE IF ~q.val THEN Ret(InvalidMetaData)
            ELSE IF notObject(selector.multiply) \/ notObject(selector.set)
                 THEN Ret(InvalidMetaData)
            ELSE collect(getMatchingItemIds(h, dbItems, selector),
                         getAffectedItemIds(h, dbItems, selector))
    IN  validate(isQuery(selector.query))

\* Object.keys(dbItems).find(element => dbItems[element]._name === itemName),
\* from key i on: Ret(Str(id)), Ret(Undef) or Thrown.
RECURSIVE FindFrom(_, _, _, _)
FindFrom(h, dbItems, itemName, i) ==
    IF i > Len(dbItems.keys) THEN Ret(Undef)
    ELSE LET item == dbItems.at[dbItems.keys[i]]
         IN  IF IsNullish(item) THEN Thrown         \* item._name: TypeError
             ELSE IF StrictEq(ItemField(h, item, "_name"), Str(itemName))
                  THEN Ret(Str(dbItems.keys[i]))
             ELSE FindFrom(h, dbItems, itemName, i + 1)

\* overwritesMetaData.set(itemId, value): a Map keeps the place of a key it
\* already holds.
MapSet(map, entry) ==
    IF \E i \in 1..Len(map) : map[i].id = entry.id
    THEN [i \in 1..Len(map) |-> IF map[i].id = entry.id THEN entry ELSE map[i]]
    ELSE Append(map, entry)

MapHas(map, id) == \E i \in 1..Len(map) : map[i].id = id
MapGet(map, id) == map[CHOOSE i \in 1..Len(map) : map[i].id = id]

\* OverwriteMetaFrom without the test of the id found: an overwrite whose
\* name no item has is filed under its name.
RECURSIVE OverwriteMetaFromUnchecked(_, _, _, _, _)
OverwriteMetaFromUnchecked(h, dbItems, manualOverwrite, i, map) ==
    LET collect(itemName, overwrite, itemId) ==
            IF itemId.thrown THEN Thrown
            ELSE OverwriteMetaFromUnchecked(h, dbItems, manualOverwrite, i + 1,
                     MapSet(map, [id |-> IF ~IsNullish(itemId.val) THEN itemId.val.v
                                         ELSE itemName,
                                  name |-> itemName,
                                  changedProperties |->
                                      KeysOrEmpty(overwrite.multiply)
                                      \o KeysOrEmpty(overwrite.set)]))
    IN  IF i > Len(manualOverwrite) THEN Ret(map)
        ELSE collect(manualOverwrite[i].name, manualOverwrite[i].ow,
                     FindFrom(h, dbItems, manualOverwrite[i].name, 1))

\* The overwrite meta data collected from entry i of manualOverwrite on.
RECURSIVE OverwriteMetaFrom(_, _, _, _, _)
OverwriteMetaFrom(h, dbItems, manualOverwrite, i, map) ==
    LET collect(itemName, overwrite, itemId) ==
            IF itemId.thrown THEN Thrown
            ELSE OverwriteMetaFrom(h, dbItems, manualOverwrite, i + 1,
                     IF ~IsNullish(itemId.val)
                     THEN MapSet(map, [id |-> itemId.val.v, name |-> itemName,
                                       changedProperties |->
                                           KeysOrEmpty(overwrite.multiply)
                                           \o KeysOrEmpty(overwrite.set)])
                     ELSE map)
    IN  IF i > Len(manualOverwrite) THEN Ret(map)
        ELSE collect(manualOverwrite[i].name, manualOverwrite[i].ow,
                     FindFrom(h, dbItems, manualOverwrite[i].name, 1))

\* The result of applySelector: the heap after it, its counters, and the
\* entries it applied (for observation) or thrown.
TweakResult(h, changeCount, changedItemIds, log) ==
    [thrown |-> FALSE, h |-> h, changeCount |-> changeCount,
     changedItemCount |-> Len(changedItemIds), changedItemIds |-> changedItemIds,
     log |-> log]

\* The entries of id that were applied, as the key and the change type.
Entries(id, keys, type) ==
    [n \in 1..Len(keys) |-> [id |-> id, key |-> keys[n], type |-> type]]

\* ApplySelectorFrom with the set of a record applied before its multiply.
RECURSIVE ApplySelectorFromSetFirst(_, _, _, _, _, _)
ApplySelectorFromSetFirst(h, dbItems, selector, itemIds, overwriteMetaMap, i) ==
    LET isNone(m) == m.kind \in {"undefined", "null"}
        \* the item's counters added to those of the items after it
        count(id, totalResult, log, rest) ==
            IF rest.thrown THEN Thrown
            ELSE IF totalResult > 0
                 THEN TweakResult(rest.h, totalResult + rest.changeCount,
                                  <<id>> \o rest.changedItemIds, log \o rest.log)
            ELSE rest
        multiply(id, setValueResult, multiplyResult) ==
            count(id, multiplyResult.n + setValueResult.n,
                  Entries(id, setValueResult.log, "SET_VALUE")
                  \o Entries(id, multiplyResult.log, "MULTIPLY"),
                  ApplySelectorFromSetFirst(multiplyResult.h, dbItems, selector, itemIds,
                                            overwriteMetaMap, i + 1))
        setThenMultiply(id, properties, multiply0, setValueResult) ==
            multiply(id, setValueResult,
                     tryToApplyAllChanges(setValueResult.h, properties, multiply0, "MULTIPLY"))
        apply(id, properties, multiply0, set) ==
            setThenMultiply(id, properties, multiply0,
                            tryToApplyAllChanges(h, properties, set, "SET_VALUE"))
        \* selectorCopy: the entries the item's overwrite names are filtered out
        filtered(id, m) ==
            IF MapHas(overwriteMetaMap, id)
            THEN filterObjectProperties(IF isNone(m) THEN Source(<<>>) ELSE m,
                     [key \in {m.e[k].k : k \in 1..Len(m.e)} |->
                         ~InSeq(key, MapGet(overwriteMetaMap, id).changedProperties)])
            ELSE m
        decide(id, item, ev) ==
            IF ev.thrown THEN Thrown
            ELSE IF ev.val /\ ~(isNone(selector.multiply) /\ isNone(selector.set))
                 THEN apply(id, ItemField(h, item, "_props"),
                            filtered(id, selector.multiply), filtered(id, selector.set))
            ELSE ApplySelectorFromSetFirst(h, dbItems, selector, itemIds, overwriteMetaMap, i + 1)
        visit(id, item) ==
            IF IsNullish(item) THEN Thrown          \* item._props: TypeError
            ELSE decide(id, item,
                        IF isValidItem(h, item) THEN evaluateQuery(h, selector.query, item)
                        ELSE Ret(FALSE))
    IN  IF i > Len(itemIds) THEN TweakResult(h, 0, <<>>, <<>>)
        ELSE visit(itemIds[i],
                   IF itemIds[i] \in DOMAIN dbItems.at THEN dbItems.at[itemIds[i]]
                   ELSE Undef)

RECURSIVE ApplySelectorFrom(_, _, _, _, _, _)
ApplySelectorFrom(h, dbItems, selector, itemIds, overwriteMetaMap, i) ==
    LET isNone(m) == m.kind \in {"undefined", "null"}
        \* the item's counters added to those of the items after it
        count(id, totalResult, log, rest) ==
            IF rest.thrown THEN Thrown
            ELSE IF totalResult > 0
                 THEN TweakResult(rest.h, totalResult + rest.changeCount,
                                  <<id>> \o rest.changedItemIds, log \o rest.log)
            ELSE rest
        setValue(id, properties, set, multiplyResult, setValueResult) ==
            count(id, multiplyResult.n + setValueResult.n,
                  Entries(id, multiplyResult.log, "MULTIPLY")
                  \o Entries(id, setValueResult.log, "SET_VALUE"),
                  ApplySelectorFrom(setValueResult.h, dbItems, selector, itemIds,
                                    overwriteMetaMap, i + 1))
        multiplyThenSet(id, properties, set, multiplyResult) ==
            setValue(id, properties, set, multiplyResult,
                     tryToApplyAllChanges(multiplyResult.h, properties, set, "SET_VALUE"))
        apply(id, properties, multiply, set) ==
            multiplyThenSet(id, properties, set,
                            tryToApplyAllChanges(h, properties, multiply, "MULTIPLY"))
        \* selectorCopy: the entries the item's overwrite names are filtered out
        filtered(id, m) ==
            IF MapHas(overwriteMetaMap, id)
            THEN filterObjectProperties(IF isNone(m) THEN Source(<<>>) ELSE m,
                     [key \in {m.e[k].k : k \in 1..Len(m.e)} |->
                         ~InSeq(key, MapGet(overwriteMetaMap, id).changedProperties)])
            ELSE m
        decide(id, item, ev) ==
            IF ev.thrown THEN Thrown
            ELSE IF ev.val /\ ~(isNone(selector.multiply) /\ isNone(selector.set))
                 THEN apply(id, ItemField(h, item, "_props"),
                            filtered(id, selector.multiply), filtered(id, selector.set))
            ELSE ApplySelectorFrom(h, dbItems, selector, itemIds, overwriteMetaMap, i + 1)
        visit(id, item) ==
            IF IsNullish(item) THEN Thrown          \* item._props: TypeError
            ELSE decide(id, item,
                        IF isValidItem(h, item) THEN evaluateQuery(h, selector.query, item)
                        ELSE Ret(FALSE))
    IN  IF i > Len(itemIds) THEN TweakResult(h, 0, <<>>, <<>>)
        ELSE visit(itemIds[i],
                   IF itemIds[i] \in DOMAIN dbItems.at THEN dbItems.at[itemIds[i]]
                   ELSE Undef)

\* applySelector without the map of the overwrites: nothing is filtered out.
applySelectorUnfiltered(h, dbItems, selector, itemIds, overwriteMetaMap) ==
    ApplySelectorFrom(h, dbItems, selector, itemIds, <<>>, 1)

applySelector(h, dbItems, selector, itemIds, overwriteMetaMap) ==
    ApplySelectorFrom(h, dbItems, selector, itemIds, overwriteMetaMap, 1)

\* The conflict report: one entry per pair of selectors whose matching ids
\* and changed properties both intersect, pairs taken in the order of the
\* two loops (k counts the pairs <<a, b>>, a the outer index).
Intersection(s, t) == SelectSeq(s, LAMBDA e : InSeq(e, t))

\* The warnings about the overwrites of shared items that leave a shared
\* property out, in the order of the map.
Unresolved(overwritesMetaData, idIntersection, propsIntersections) ==
    LET warn(m) ==
            [id |-> m.id,
             properties |-> SelectSeq(propsIntersections,
                                LAMBDA e : ~InSeq(e, m.changedProperties))]
        warnings(inOverwrite) == [x \in 1..Len(inOverwrite) |-> warn(inOverwrite[x])]
    IN  SelectSeq(warnings(SelectSeq(overwritesMetaData,
                                     LAMBDA m : InSeq(m.id, idIntersection))),
                  LAMBDA w : Len(w.properties) > 0)

\* Conflict with every ordered pair of distinct selectors compared.
ConflictOfOrderedPair(metas, overwritesMetaData, a, b) ==
    LET report(idIntersection, propsIntersections) ==
            IF a # b /\ Len(idIntersection) > 0 /\ Len(propsIntersections) > 0
            THEN <<[first |-> a, second |-> b,
                    items |-> SelectSeq(idIntersection,
                                        LAMBDA e : ~MapHas(overwritesMetaData, e)),
                    properties |-> propsIntersections,
                    unresolved |-> Unresolved(overwritesMetaData, idIntersection,
                                              propsIntersections)]>>
            ELSE <<>>
    IN  report(Intersection(metas[a].matchingIds, metas[b].matchingIds),
               Intersection(metas[a].changedProperties, metas[b].changedProperties))

\* Conflict with the items of the overwrites left among the conflict items.
ConflictKeepingItems(metas, overwritesMetaData, a, b) ==
    LET report(idIntersection, propsIntersections) ==
            IF a < b /\ Len(idIntersection) > 0 /\ Len(propsIntersections) > 0
            THEN <<[first |-> a, second |-> b,
                    items |-> idIntersection,
                    properties |-> propsIntersections,
                    unresolved |-> Unresolved(overwritesMetaData, idIntersection,
                                              propsIntersections)]>>
            ELSE <<>>
    IN  report(Intersection(metas[a].matchingIds, metas[b].matchingIds),
               Intersection(metas[a].changedProperties, metas[b].changedProperties))

\* The body of the two loops for the selectors a (outer) and b (inner): b is
\* compared when it differs from a and is not among the checked selectors,
\* which are those before a.  An item found in the overwrites is spliced
\* out of the conflict items, whether its overwrite names every shared
\* property or not.
Conflict(metas, overwritesMetaData, a, b) ==
    LET report(idIntersection, propsIntersections) ==
            IF a < b /\ Len(idIntersection) > 0 /\ Len(propsIntersections) > 0
            THEN <<[first |-> a, second |-> b,
                    items |-> SelectSeq(idIntersection,
                                        LAMBDA e : ~MapHas(overwritesMetaData, e)),
                    properties |-> propsIntersections,
                    unresolved |-> Unresolved(overwritesMetaData, idIntersection,
                                              propsIntersections)]>>
            ELSE <<>>
    IN  report(Intersection(metas[a].matchingIds, metas[b].matchingIds),
               Intersection(metas[a].changedProperties, metas[b].changedProperties))

RECURSIVE ConflictsFrom(_, _, _)
ConflictsFrom(metas, overwritesMetaData, k) ==
    IF k >= Len(metas) * Len(metas) THEN <<>>
    ELSE Conflict(metas, overwritesMetaData, (k \div Len(metas)) + 1, (k % Len(metas)) + 1)
         \o ConflictsFrom(metas, overwritesMetaData, k + 1)

RECURSIVE SelectorMetaFrom(_, _, _, _)
SelectorMetaFrom(h, dbItems, dynamicSelectors, i) ==
    LET collect(one, rest) ==
            IF one.thrown \/ rest.thrown THEN Thrown
            ELSE Ret(<<one.val>> \o rest.val)
    IN  IF i > Len(dynamicSelectors) THEN Ret(<<>>)
        ELSE collect(getSelectorMetaData(h, dbItems, dynamicSelectors[i]),
                     SelectorMetaFrom(h, dbItems, dynamicSelectors, i + 1))

(***************************************************************************)
(* postDBLoad as a state machine: the meta data, the conflict check, one   *)
(* step per selector, one step per manual overwrite.                       *)
(***************************************************************************)
NoOut ==
    [selectorsMetaData |-> <<>>, overwritesMetaData |-> <<>>, conflicts |-> <<>>,
     i |-> 0, results |-> <<>>]

\* AfterStep with the two loops in the other order.
AfterStepOverwritesFirst(phase, i, o) ==
    IF phase = "selectors" /\ i = 0 /\ Len(o.overwritesMetaData) > 0
    THEN [pc |-> "overwrites", i |-> 1]
    ELSE IF phase = "overwrites" /\ i < Len(o.overwritesMetaData)
    THEN [pc |-> "overwrites", i |-> i + 1]
    ELSE IF (phase = "overwrites" \/ i = 0) /\ Len(o.selectorsMetaData) > 0
    THEN [pc |-> "selectors", i |-> 1]
    ELSE IF phase = "selectors" /\ i >= 1 /\ i < Len(o.selectorsMetaData)
    THEN [pc |-> "selectors", i |-> i + 1]
    ELSE [pc |-> "done", i |-> 0]

\* AfterStep with the selectors visited by descending priority (a selector
\* without a number as its priority counts as 0, ties in configuration
\* order) instead of configuration order.
AfterStepByPriority(phase, i, o) ==
    LET n == Len(o.selectorsMetaData)
        prio(s) == IF o.selectorsMetaData[s].priority.t = "number"
                   THEN o.selectorsMetaData[s].priority.n ELSE 0
        before(s, t) == prio(s) > prio(t) \/ (prio(s) = prio(t) /\ s < t)
        rank(s) == Cardinality({t \in 1..n : before(t, s)}) + 1
        at(r) == CHOOSE s \in 1..n : rank(s) = r
    IN  IF phase = "selectors" /\ i = 0 /\ n > 0
        THEN [pc |-> "selectors", i |-> at(1)]
        ELSE IF phase = "selectors" /\ i > 0 /\ rank(i) < n
        THEN [pc |-> "selectors", i |-> at(rank(i) + 1)]
        ELSE IF phase = "selectors" /\ Len(o.overwritesMetaData) > 0
        THEN [pc |-> "overwrites", i |-> 1]
        ELSE IF phase = "overwrites" /\ i < Len(o.overwritesMetaData)
        THEN [pc |-> "overwrites", i |-> i + 1]
        ELSE [pc |-> "done", i |-> 0]

\* The order of the two loops of postDBLoad: where the pass goes after
\* step i of a loop (i = 0: before the first selector).  The selectors are
\* visited in configuration order, then the overwrites in the order of the
\* map.
AfterStep(phase, i, o) ==
    IF phase = "selectors" /\ i < Len(o.selectorsMetaData)
    THEN [pc |-> "selectors", i |-> i + 1]
    ELSE IF phase = "selectors" /\ Len(o.overwritesMetaData) > 0
    THEN [pc |-> "overwrites", i |-> 1]
    ELSE IF phase = "overwrites" /\ i < Len(o.overwritesMetaData)
    THEN [pc |-> "overwrites", i |-> i + 1]
    ELSE [pc |-> "done", i |-> 0]

Events(phase, who, log) ==
    [n \in 1..Len(log) |->
        [phase |-> phase, who |-> who, id |-> log[n].id, key |-> log[n].key,
         type |-> log[n].type]]

\* The counters a pass logs for one selector or overwrite.
Logged(phase, who, tweakResult) ==
    [phase |-> phase, who |-> who, changeCount |-> tweakResult.changeCount,
     changedItemCount |-> tweakResult.changedItemCount]

CollectMetaData ==
    /\ pc = "start"
    /\ LET collected(sm, om) ==
               IF sm.thrown \/ om.thrown
               THEN pc' = "aborted" /\ out' = out
               ELSE /\ pc' = "conflicts"
                    /\ out' = [out EXCEPT !.selectorsMetaData = sm.val,
                                          !.overwritesMetaData = om.val]
       IN  collected(SelectorMetaFrom(heap, inp.dbItems, inp.dynamicSelectors, 1),
                     OverwriteMetaFrom(heap, inp.dbItems, inp.manualOverwrite, 1, <<>>))
    /\ UNCHANGED <<heap, inp, hist>>

\* CheckConflicts with the items of the overwrites spliced out of the
\* selectors' own id lists instead of a copy.
CheckConflictsSplicing ==
    /\ pc = "conflicts"
    /\ LET kept(ids) == SelectSeq(ids, LAMBDA id : ~MapHas(out.overwritesMetaData, id))
           spliced(metas) ==
               [s \in 1..Len(metas) |->
                   [metas[s] EXCEPT !.matchingIds = kept(@), !.affectedIds = kept(@)]]
           goto(next) ==
               /\ pc' = next.pc
               /\ out' = [out EXCEPT
                             !.conflicts = ConflictsFrom(out.selectorsMetaData,
                                                         out.overwritesMetaData, 0),
                             !.selectorsMetaData = spliced(@),
                             !.i = next.i]
       IN  goto(AfterStep("selectors", 0, out))
    /\ UNCHANGED <<heap, inp, hist>>

CheckConflicts ==
    /\ pc = "conflicts"
    /\ LET goto(next) ==
               /\ pc' = next.pc
               /\ out' = [out EXCEPT
                             !.conflicts = ConflictsFrom(out.selectorsMetaData,
                                                         out.overwritesMetaData, 0),
                             !.i = next.i]
       IN  goto(AfterStep("selectors", 0, out))
    /\ UNCHANGED <<heap, inp, hist>>

\* ApplySelectorTweaks that visits every record of the collection as it is
\* now instead of the ids collected before the first selector.
ApplySelectorTweaksFresh ==
    /\ pc = "selectors"
    /\ LET applied(next, tweakResult) ==
               IF tweakResult.thrown
               THEN pc' = "aborted" /\ UNCHANGED <<heap, out, hist>>
               ELSE /\ pc' = next.pc
                    /\ heap' = tweakResult.h
                    /\ out' = [out EXCEPT !.i = next.i,
                                  !.results = Append(@, Logged("selector", out.i, tweakResult))]
                    /\ hist' = hist \o Events("selector", out.i, tweakResult.log)
           tweak(selectorMeta, next) ==
               IF ~selectorMeta.isValid
               THEN /\ pc' = next.pc
                    /\ out' = [out EXCEPT !.i = next.i]
                    /\ UNCHANGED <<heap, hist>>
               ELSE applied(next,
                        applySelector(heap, inp.dbItems, inp.dynamicSelectors[out.i],
                            inp.dbItems.keys,
                            out.overwritesMetaData))
       IN  tweak(out.selectorsMetaData[out.i], AfterStep("selectors", out.i, out))
    /\ UNCHANGED inp

ApplySelectorTweaks ==
    /\ pc = "selectors"
    /\ LET applied(next, tweakResult) ==
               IF tweakResult.thrown
               THEN pc' = "aborted" /\ UNCHANGED <<heap, out, hist>>
               ELSE /\ pc' = next.pc
                    /\ heap' = tweakResult.h
                    /\ out' = [out EXCEPT !.i = next.i,
                                  !.results = Append(@, Logged("selector", out.i, tweakResult))]
                    /\ hist' = hist \o Events("selector", out.i, tweakResult.log)
           tweak(selectorMeta, next) ==
               IF ~selectorMeta.isValid
               THEN /\ pc' = next.pc
                    /\ out' = [out EXCEPT !.i = next.i]
                    /\ UNCHANGED <<heap, hist>>
               ELSE applied(next,
                        applySelector(heap, inp.dbItems, inp.dynamicSelectors[out.i],
                            IF Len(selectorMeta.affectedIds) < 1
                            THEN selectorMeta.matchingIds ELSE selectorMeta.affectedIds,
                            out.overwritesMetaData))
       IN  tweak(out.selectorsMetaData[out.i], AfterStep("selectors", out.i, out))
    /\ UNCHANGED inp

\* manualOverwrite[itemName]
OverwriteNamed(manualOverwrite, itemName) ==
    manualOverwrite[CHOOSE i \in 1..Len(manualOverwrite) : manualOverwrite[i].name = itemName].ow

\* ApplyManualOverwrite that leaves the overwrite's multiply out.
ApplyManualOverwriteSetOnly ==
    /\ pc = "overwrites"
    /\ LET applied(next, overwriteResult) ==
               IF overwriteResult.thrown
               THEN pc' = "aborted" /\ UNCHANGED <<heap, out, hist>>
               ELSE /\ heap' = overwriteResult.h
                    /\ pc' = next.pc
                    /\ out' = [out EXCEPT
                                  !.i = next.i,
                                  !.results = Append(@, Logged("overwrite", out.i,
                                                               overwriteResult))]
                    /\ hist' = hist \o Events("overwrite", out.i, overwriteResult.log)
           overwriteItem(itemId, overwrite) ==
               applied(AfterStep("overwrites", out.i, out),
                       applySelector(heap, inp.dbItems,
                           [query |-> [t |-> "object", key |-> Str(<<"_id">>),
                                       operation |-> Str("equals"),
                                       values |-> List(<<Str(itemId)>>),
                                       negation |-> Undef, strict |-> Undef,
                                       condition |-> Undef, expressions |-> Undef],
                            multiply |-> NoSource,
                            set |-> overwrite.set,
                            priority |-> Undef],
                           <<itemId>>, <<>>))
       IN  overwriteItem(out.overwritesMetaData[out.i].id,
                         OverwriteNamed(inp.manualOverwrite,
                                        out.overwritesMetaData[out.i].name))
    /\ UNCHANGED inp

ApplyManualOverwrite ==
    /\ pc = "overwrites"
    /\ LET applied(next, overwriteResult) ==
               IF overwriteResult.thrown
               THEN pc' = "aborted" /\ UNCHANGED <<heap, out, hist>>
               ELSE /\ heap' = overwriteResult.h
                    /\ pc' = next.pc
                    /\ out' = [out EXCEPT
                                  !.i = next.i,
                                  !.results = Append(@, Logged("overwrite", out.i,
                                                               overwriteResult))]
                    /\ hist' = hist \o Events("overwrite", out.i, overwriteResult.log)
           overwriteItem(itemId, overwrite) ==
               applied(AfterStep("overwrites", out.i, out),
                       applySelector(heap, inp.dbItems,
                           [query |-> [t |-> "object", key |-> Str(<<"_id">>),
                                       operation |-> Str("equals"),
                                       values |-> List(<<Str(itemId)>>),
                                       negation |-> Undef, strict |-> Undef,
                                       condition |-> Undef, expressions |-> Undef],
                            multiply |-> overwrite.multiply,
                            set |-> overwrite.set,
                            priority |-> Undef],
                           <<itemId>>, <<>>))
       IN  overwriteItem(out.overwritesMetaData[out.i].id,
                         OverwriteNamed(inp.manualOverwrite,
                                        out.overwritesMetaData[out.i].name))
    /\ UNCHANGED inp

(***************************************************************************)
(* The runs of the pass that are checked                                   *)
(***************************************************************************)
MaxNum == 2             \* the first record's p is one of 0..MaxNum
MaxSelectors == 2       \* dynamic_selectors.json holds this many selectors

BasicExpression(key, operation, values, negation, strict) ==
    [t |-> "object", key |-> Str(key), operation |-> operation, values |-> List(values),
     negation |-> negation, strict |-> strict, condition |-> Undef, expressions |-> Undef]

LogicalExpression(condition, expressions, negation) ==
    [t |-> "object", key |-> Undef, operation |-> Undef, values |-> Undef,
     negation |-> negation, strict |-> Undef, condition |-> Str(condition),
     expressions |-> List(expressions)]

Selector(query, multiply, set, priority) ==
    [query |-> query, multiply |-> multiply, set |-> set, priority |-> priority]

rifle == <<"r", "i">>
shotgun == <<"s", "h">>
id1 == <<"i", "1">>
id2 == <<"i", "2">>
id3 == <<"i", "3">>
name1 == <<"n", "1">>
name2 == <<"n", "2">>
name3 == <<"n", "3">>
noName == <<"z">>

\* Addresses: item k at k, its _props at 10 + k, its a at 20 + k; the object
\* that selector s sets at 30 + s.
ItemObj(id, name, type, props) ==
    Obj([_id |-> Str(id), _name |-> Str(name), _type |-> Str(type), _props |-> Ref(props)])

Variants == {"item", "node", "otherId"}

DbHeap(v1, variant) ==
    (1 :> ItemObj(id1, name1, ItemStr, 11))
    @@ (11 :> Obj([p |-> Num(v1), c |-> Str(rifle), a |-> Ref(21)]))
    @@ (21 :> Obj([x |-> Num(1)]))
    @@ (2 :> ItemObj(id2, name2, ItemStr, 12))
    @@ (12 :> Obj([p |-> Num(1), c |-> Str(shotgun), a |-> Ref(22)]))
    @@ (22 :> Obj([x |-> Num(2)]))
    @@ (3 :> ItemObj(IF variant = "otherId" THEN noName ELSE id3, name3,
                     IF variant = "node" THEN <<"N">> ELSE ItemStr, 13))
    @@ (13 :> Obj([p |-> Num(2), c |-> Str(rifle)]))

DbItems ==
    [keys |-> <<id1, id2, id3>>,
     at |-> (id1 :> Ref(1)) @@ (id2 :> Ref(2)) @@ (id3 :> Ref(3))]

\* The selectors a configuration is made of.
SelectorChoices == 1..12
SelectorChoice(k, s) ==
    CASE k = 1 -> Selector(BasicExpression(<<"c">>, Str("equals"), <<Str(rifle)>>, Undef, Undef),
                           Source(<<Entry(<<"p">>, Num(2))>>), NoSource, Undef)
      [] k = 2 -> Selector(BasicExpression(<<"p">>, Str("greater_than"), <<Num(0)>>, Undef, Undef),
                           NoSource, Source(<<Entry(<<"p">>, Num(0))>>), Num(1))
      [] k = 3 -> Selector(LogicalExpression("and",
                               <<BasicExpression(<<"c">>, Undef, <<Str(rifle), Str(shotgun)>>, Undef, Undef),
                                 BasicExpression(<<"p">>, Str("less_than"), <<Num(2)>>, Bool(FALSE), Bool(TRUE))>>,
                               Undef),
                           Source(<<Entry(<<"p">>, Num(2))>>),
                           Source(<<Entry(<<"p">>, Num(1))>>), Undef)
      [] k = 4 -> Selector(BasicExpression(<<"c">>, Str("starts_with"), <<Str(<<"r">>)>>, Undef, Undef),
                           NoSource, Source(<<Entry(<<"a">>, Ref(30 + s))>>), Undef)
      [] k = 5 -> Selector(BasicExpression(<<"_type">>, Undef, <<Str(ItemStr)>>, Undef, Undef),
                           Source(<<Entry(<<"a", "x">>, Num(2)), Entry(<<"p">>, Num(3))>>),
                           NoSource, Num(2))
      [] k = 6 -> Selector(LogicalExpression("or",
                               <<BasicExpression(<<"c">>, Undef, <<Str(rifle)>>, Undef, Undef)>>,
                               Bool(TRUE)),
                           Source(<<Entry(<<"p">>, Num(5))>>), NoSource, Undef)
      [] k = 7 -> Selector(BasicExpression(<<"c">>, Undef, <<Str(rifle)>>, Bool(TRUE), Undef),
                           NoSource, Source(<<Entry(<<"c">>, Str(rifle))>>), Undef)
      [] k = 9 -> Selector(Null, Source(<<Entry(<<"p">>, Num(2))>>), NoSource, Undef)
      [] k = 10 -> Selector(LogicalExpression("and",
                                <<BasicExpression(<<"c">>, Undef, <<Str(rifle)>>, Undef, Undef),
                                  Num(5)>>,
                                Undef),
                            Source(<<Entry(<<"p">>, Num(2))>>), NoSource, Undef)
      [] k = 11 -> Selector(LogicalExpression("or",
                                <<BasicExpression(<<"p">>, Str("less_than"), <<Num(3)>>, Undef, Undef),
                                  [t |-> "object", key |-> Undef, operation |-> Undef,
                                   values |-> Undef, negation |-> Undef, strict |-> Bool(TRUE),
                                   condition |-> Undef, expressions |-> Undef]>>,
                                Undef),
                            Source(<<Entry(<<"p">>, Num(2))>>), NoSource, Undef)
      [] k = 12 -> Selector(BasicExpression(<<"_type">>, Undef, <<Str(ItemStr)>>, Undef, Undef),
                            NoSource, Source(<<Entry(<<"a">>, Ref(30 + s))>>), Undef)
      [] OTHER -> Selector(BasicExpression(<<"c">>, Undef, <<Str(rifle)>>, Undef, Undef),
                           [kind |-> "null", e |-> <<>>],
                           Source(<<Entry(<<"p">>, Num(0))>>), Undef)

SelectorHeap(choice) ==
    [a \in {30 + s : s \in DOMAIN choice} |-> Obj([x |-> Num(5)])]

Overwrite(multiply, set) == [multiply |-> multiply, set |-> set]

OverwriteChoices1 ==
    {<<>>,
     <<[name |-> name1, ow |-> Overwrite(Source(<<Entry(<<"p">>, Num(3))>>), NoSource)]>>,
     <<[name |-> name1, ow |-> Overwrite(Source(<<Entry(<<"a", "x">>, Num(3))>>),
                                          Source(<<Entry(<<"p">>, Num(1))>>))]>>}
OverwriteChoices3 ==
    {<<>>,
     <<[name |-> name3, ow |-> Overwrite(NoSource, Source(<<Entry(<<"p">>, Num(0)),
                                                              Entry(<<"z">>, Num(0))>>))]>>}
OverwriteChoicesNone ==
    {<<>>,
     <<[name |-> noName, ow |-> Overwrite(NoSource, Source(<<Entry(<<"p">>, Num(0))>>))]>>}

Init ==
    \E v1 \in 0..MaxNum, variant \in Variants,
       choice \in [1..MaxSelectors -> SelectorChoices],
       o1 \in OverwriteChoices1, o3 \in OverwriteChoices3, o0 \in OverwriteChoicesNone :
        /\ heap = DbHeap(v1, variant) @@ SelectorHeap(choice)
        /\ inp = [dbItems |-> DbItems,
                  dynamicSelectors |-> [s \in 1..MaxSelectors |-> SelectorChoice(choice[s], s)],
                  manualOverwrite |-> o0 \o o1 \o o3,
                  heap0 |-> DbHeap(v1, variant) @@ SelectorHeap(choice)]
        /\ pc = "start"
        /\ out = NoOut
        /\ hist = <<>>

Next ==
    \/ CollectMetaData
    \/ CheckConflicts
    \/ ApplySelectorTweaks
    \/ ApplyManualOverwrite

Spec == Init /\ [][Next]_vars

(***************************************************************************)
(* Query.evaluateQuery on its own: one expression evaluated on the records *)
(* of a batch, one after the other.  An exception ends the batch.          *)
(***************************************************************************)
wild == <<".", "i">>        \* as a pattern: any character, then "i"

\* Record k at address k, its _props at 10 + k; the composites of the
\* expressions' values at 41 and 42.
QueryHeap ==
    (1 :> ItemObj(id1, name1, ItemStr, 11))
    @@ (11 :> Obj([c |-> Str(rifle), p |-> Num(1), n |-> Null, a |-> Ref(21), l |-> Ref(31)]))
    @@ (21 :> Obj([x |-> Num(1)]))
    @@ (31 :> Arr([i \in {"0"} |-> Num(1)]))
    @@ (2 :> ItemObj(id2, name2, ItemStr, 12))
    @@ (12 :> Obj([c |-> Str(shotgun), p |-> Num(2), a |-> Num(5)]))
    @@ (3 :> ItemObj(id3, name3, ItemStr, 13))
    @@ (13 :> Obj([c |-> Num(1), p |-> Str(rifle), l |-> Ref(33)]))
    @@ (33 :> Obj([x |-> Num(1)]))
    @@ (41 :> Obj([x |-> Num(1)]))
    @@ (42 :> Arr([i \in {"0"} |-> Num(1)]))

Batches == {<<Ref(1), Ref(2)>>, <<Ref(2), Ref(3)>>, <<Ref(3), Ref(1)>>}

QueryKeys ==
    {<<"c">>, <<"p">>, <<"n">>, <<"a">>, <<"l">>, <<"z">>, <<"a", "x">>, <<"z", "x">>,
     <<"_id">>}

Operations ==
    {Undef} \cup {Str(o) : o \in {"equals", "contains", "starts_with", "ends_with",
                                  "greater_than", "less_than"}}

ValueLists ==
    {<<Str(rifle)>>, <<Str(rifle), Str(shotgun)>>, <<Str(<<"r">>), Str(rifle)>>,
     <<Str(wild)>>, <<Str(id1)>>, <<Null>>, <<Ref(41)>>, <<Ref(42)>>,
     <<Str(rifle), Num(1)>>}
    \cup {<<Num(n)>> : n \in 0..MaxNum} \cup {<<Num(n), Num(1)>> : n \in 0..MaxNum}

Flags == {Undef, Bool(TRUE), Bool(FALSE)}

BasicExpressions ==
    {BasicExpression(key, operation, values, negation, strict) :
        key \in QueryKeys, operation \in Operations, values \in ValueLists,
        negation \in Flags, strict \in Flags}

\* The children of the logical expressions that are drawn.
Children ==
    {BasicExpression(<<"c">>, Undef, <<Str(rifle)>>, Undef, Undef),
     BasicExpression(<<"p">>, Str("greater_than"), <<Num(1)>>, Undef, Undef),
     BasicExpression(<<"z">>, Undef, <<Str(rifle)>>, Bool(TRUE), Undef),
     BasicExpression(<<"c">>, Str("less_than"), <<Str(rifle)>>, Undef, Bool(TRUE)),
     LogicalExpression("or",
         <<BasicExpression(<<"c">>, Undef, <<Str(shotgun)>>, Undef, Undef),
           BasicExpression(<<"p">>, Undef, <<Num(1)>>, Undef, Undef)>>, Undef)}

LogicalExpressions ==
    {LogicalExpression(condition, expressions, negation) :
        condition \in {"and", "or"},
        expressions \in {<<e>> : e \in Children} \cup {<<e, f>> : e \in Children, f \in Children},
        negation \in Flags}

InitQuery ==
    \E query \in BasicExpressions \cup LogicalExpressions, records \in Batches :
        /\ heap = QueryHeap
        /\ inp = [query |-> query, records |-> records]
        /\ pc = "evaluate"
        /\ out = [i |-> 1, results |-> <<>>]
        /\ hist = <<>>

EvaluateRecord ==
    /\ pc = "evaluate"
    /\ LET evaluated(result) ==
               IF result.thrown
               THEN pc' = "raised" /\ out' = out
               ELSE /\ pc' = IF out.i < Len(inp.records) THEN "evaluate" ELSE "evaluated"
                    /\ out' = [i |-> out.i + 1, results |-> Append(out.results, result.val)]
       IN  evaluated(evaluateQuery(heap, inp.query, inp.records[out.i]))
    /\ UNCHANGED <<heap, inp, hist>>

NextQuery == EvaluateRecord

SpecQuery == InitQuery /\ [][NextQuery]_vars

(***************************************************************************)
(* What the expressions mean, stated on the records themselves             *)
(***************************************************************************)
\* The object a key is resolved in: the record for a key that begins with an
\* underscore, its properties otherwise.
Namespace(h, record, key) ==
    IF Head(key) \in UnderscoreKeys THEN record ELSE h[record.a].f["_props"]

\* The value at a path below v: a value, "absent" when a segment is missing,
\* "fault" when the path goes through a value that is not a tree or array.
RECURSIVE Walk(_, _, _)
Walk(h, v, path) ==
    IF path = <<>> THEN [kind |-> "value", val |-> v]
    ELSE IF v.t # "ref" THEN [kind |-> "fault"]
    ELSE IF Head(path) \notin DOMAIN h[v.a].f THEN [kind |-> "absent"]
    ELSE Walk(h, h[v.a].f[Head(path)], Tail(path))

Resolved(h, query, record) == Walk(h, Namespace(h, record, query.key.v), query.key.v)

\* pattern matches s from position i on ("." stands for any character)
PatternAt(pattern, s, i) ==
    /\ i >= 1
    /\ i + Len(pattern) - 1 <= Len(s)
    /\ \A k \in 1..Len(pattern) : pattern[k] \in {".", s[i + k - 1]}

\* value satisfies operation for the resolved value; an operation that is
\* not legal for the type of the resolved value is satisfied by no value.
Satisfies(h, operation, resolved, value) ==
    CASE operation = "equals" -> Deep(h, resolved) = Deep(h, value)
      [] operation \in {"contains", "starts_with", "ends_with"} ->
            /\ resolved.t = "string" /\ value.t = "string"
            /\ \E i \in 1..(Len(resolved.v) + 1) :
                  /\ PatternAt(value.v, resolved.v, i)
                  /\ operation = "starts_with" => i = 1
                  /\ operation = "ends_with" => i + Len(value.v) - 1 = Len(resolved.v)
      [] operation = "greater_than" ->
            resolved.t = "number" /\ value.t = "number" /\ resolved.n > value.n
      [] operation = "less_than" ->
            resolved.t = "number" /\ value.t = "number" /\ resolved.n < value.n

IsBasic(query) == query.key # Undef
IsLogical(query) == query.condition # Undef
Negated(query) == query.negation = Bool(TRUE)
OperationOf(query) == IF query.operation = Undef THEN "equals" ELSE query.operation.v

\* any/all of the values satisfy the operation, then the negation
Expected(h, query, resolved) ==
    Negated(query) #
        (IF query.strict = Bool(TRUE)
         THEN \A i \in 1..Len(query.values.v) :
                 Satisfies(h, OperationOf(query), resolved, query.values.v[i])
         ELSE \E i \in 1..Len(query.values.v) :
                 Satisfies(h, OperationOf(query), resolved, query.values.v[i]))

\* The key resolves to a present value of the type of all the values.
PresentSameType(h, query, record) ==
    /\ IsBasic(query)
    /\ Resolved(h, query, record).kind = "value"
    /\ \A i \in 1..Len(query.values.v) :
          ModelType(h, query.values.v[i]) = ModelType(h, Resolved(h, query, record).val)

C5_AbsentKey ==
    \A n \in 1..Len(out.results) :
        /\ IsBasic(inp.query)
        /\ Resolved(heap, inp.query, inp.records[n]).kind = "absent"
        => out.results[n] = Negated(inp.query)

\* The children of a logical expression all evaluate on the record.
ChildrenEvaluate(h, query, record) ==
    \A i \in 1..Len(query.expressions.v) :
        ~evaluateQuery(h, query.expressions.v[i], record).thrown

\* The conjunction or disjunction of the children's results, then the negation.
Combined(h, query, record) ==
    Negated(query) #
        (IF query.condition.v = "and"
         THEN \A i \in 1..Len(query.expressions.v) :
                 evaluateQuery(h, query.expressions.v[i], record).val
         ELSE \E i \in 1..Len(query.expressions.v) :
                 evaluateQuery(h, query.expressions.v[i], record).val)

\* C6 as stated: a logical expression evaluates to the conjunction (and) or
\* disjunction (or) of its children's results, inverted when the node
\* carries negation: true, as is with negation: false or none.
C6_LogicalComposition ==
    IsLogical(inp.query) =>
        /\ pc = "raised" => ~ChildrenEvaluate(heap, inp.query, inp.records[out.i])
        /\ \A n \in 1..Len(out.results) :
              ChildrenEvaluate(heap, inp.query, inp.records[n])
              => out.results[n] = Combined(heap, inp.query, inp.records[n])

\* The resolved value differs in type from a value, or the operation is not
\* one for its type, or the path cannot be walked.
Faulty(h, query, record) ==
    LET resolved == Resolved(h, query, record)
    IN  \/ resolved.kind = "fault"
        \/ /\ resolved.kind = "value"
           /\ \/ \E i \in 1..Len(query.values.v) :
                    ModelType(h, query.values.v[i]) # ModelType(h, resolved.val)
              \/ /\ OperationOf(query) \in {"contains", "starts_with", "ends_with"}
                 /\ resolved.val.t # "string"
              \/ /\ OperationOf(query) \in {"greater_than", "less_than"}
                 /\ resolved.val.t # "number"

\* C7 as stated: evaluation of a well-formed expression never raises, and a
\* basic expression with a type mismatch, an operation that is not legal for
\* the resolved value or a path fault evaluates to false, to true under
\* negation.
C7_FailsClosed ==
    /\ pc # "raised"
    /\ \A n \in 1..Len(out.results) :
          IsBasic(inp.query) /\ Faulty(heap, inp.query, inp.records[n])
          => out.results[n] = Negated(inp.query)

(***************************************************************************)
(* Applicator.tryToApplyAllChanges on its own: the mappings of a program   *)
(* applied to one record, one after the other.                             *)
(***************************************************************************)
\* The record at 11, its composites at 21 and 31; the composites of the
\* mappings at 41 (a tree), 42 (an array) and 43 (a tree equal to 21).
ApplyHeap(v) ==
    (11 :> Obj([p |-> Num(v), q |-> Str(<<"x">>), a |-> Ref(21), l |-> Ref(31),
                n |-> Null, m |-> NaNv]))
    @@ (21 :> Obj([x |-> Num(1)]))
    @@ (31 :> Arr([i \in {"0"} |-> Num(1)]))
    @@ (41 :> Obj([x |-> Num(0)]))
    @@ (42 :> Arr([i \in {"0"} |-> Num(2)]))
    @@ (43 :> Obj([x |-> Num(1)]))

ApplyKeys ==
    {<<"p">>, <<"q">>, <<"a">>, <<"l">>, <<"n">>, <<"m">>, <<"z">>,
     <<"a", "x">>, <<"a", "y">>, <<"p", "x">>, <<"z", "x">>}

SetValues ==
    {Num(n) : n \in 0..MaxNum}
    \cup {Str(<<"x">>), Str(<<"y">>), Null, Bool(TRUE), Ref(41), Ref(42), Ref(43)}

Multipliers == SetValues \cup {NaNv}

SetMappings ==
    {Source(<<Entry(k, v)>>) : k \in ApplyKeys, v \in SetValues}
    \cup {Source(<<Entry(<<"a", "x">>, Num(2)), Entry(<<"a">>, Ref(41))>>),
          Source(<<Entry(<<"a">>, Ref(41)), Entry(<<"a", "x">>, Num(2))>>),
          Source(<<Entry(<<"p">>, Num(1)), Entry(<<"q">>, Str(<<"y">>))>>),
          Source(<<Entry(<<"p">>, Str(<<"y">>)), Entry(<<"q">>, Str(<<"y">>))>>)}

\* A mapping that is absent or null, and mappings of two entries of which
\* either, both or none is rejected, as a set and as a multiply.
AbsentMappings == {NoSource, [kind |-> "null", e |-> <<>>]}

MixedMappings ==
    {Source(<<Entry(j, v), Entry(k, w)>>) :
        j \in {<<"p">>, <<"z", "x">>}, k \in {<<"q">>, <<"a", "x">>},
        v \in {Num(2), Str(<<"y">>)}, w \in {Num(2), Str(<<"y">>)}}

Step(changeType, mapping) == [changeType |-> changeType, mapping |-> mapping]

Programs ==
    {<<Step("SET_VALUE", m), Step("SET_VALUE", m)>> : m \in SetMappings}
    \cup {<<Step("MULTIPLY", Source(<<Entry(k, v)>>)),
            Step("MULTIPLY", Source(<<Entry(k, v)>>))>> : k \in ApplyKeys, v \in Multipliers}
    \cup {<<Step("MULTIPLY", Source(<<Entry(k, Num(2))>>)),
            Step("MULTIPLY", Source(<<Entry(k, Num(3))>>))>> : k \in ApplyKeys}
    \cup {<<Step(first, absent), Step(second, m)>> :
              first \in {"SET_VALUE", "MULTIPLY"}, absent \in AbsentMappings,
              second \in {"SET_VALUE", "MULTIPLY"}, m \in MixedMappings}

InitApply ==
    \E v \in 0..MaxNum, program \in Programs :
        /\ heap = ApplyHeap(v)
        /\ inp = [target |-> Ref(11), program |-> program, heap0 |-> ApplyHeap(v)]
        /\ pc = "apply"
        /\ out = [i |-> 1, results |-> <<>>, heaps |-> <<>>]
        /\ hist = <<>>

ApplyAllChanges ==
    /\ pc = "apply"
    /\ LET applied(result) ==
               /\ heap' = result.h
               /\ pc' = IF out.i < Len(inp.program) THEN "apply" ELSE "applied"
               /\ out' = [i |-> out.i + 1, results |-> Append(out.results, result.n),
                          heaps |-> Append(out.heaps, result.h)]
               /\ hist' = hist \o result.log
       IN  applied(tryToApplyAllChanges(heap, inp.target, inp.program[out.i].mapping,
                                        inp.program[out.i].changeType))
    /\ UNCHANGED inp

NextApply == ApplyAllChanges

SpecApply == InitApply /\ [][NextApply]_vars

(***************************************************************************)
(* What the applications mean, stated on the record                        *)
(***************************************************************************)
\* The record of a program as a value, before the program and after step n.
Before == Deep(inp.heap0, inp.target)
After(n) == Deep(out.heaps[n], inp.target)

\* The contents d with the value at path replaced by x.
RECURSIVE Replaced(_, _, _)
Replaced(d, path, x) ==
    IF path = <<>> THEN x
    ELSE [d EXCEPT !.f = [k \in DOMAIN d.f |->
                             IF k = Head(path) THEN Replaced(d.f[k], Tail(path), x)
                             ELSE d.f[k]]]

IsPrefix(s, t) == Len(s) < Len(t) /\ SubSeq(t, 1, Len(s)) = s

\* No key of the mapping is a path below another key of the mapping.
NoNestedKeys(mapping) ==
    \A i, j \in 1..Len(mapping.e) : ~IsPrefix(mapping.e[i].k, mapping.e[j].k)

SetTwice ==
    /\ pc = "applied"
    /\ inp.program[1].changeType = "SET_VALUE"
    /\ inp.program[2] = inp.program[1]

\* C8 as stated: applying a set mapping a second time changes nothing and
\* returns 0.
C8_SetIdempotent ==
    SetTwice => out.results[2] = 0 /\ After(2) = After(1)

\* C8 amended: the same for a set mapping none of whose keys is a path
\* below another of its keys.
C8_SetIdempotentDisjointKeys ==
    SetTwice /\ NoNestedKeys(inp.program[1].mapping)
    => out.results[2] = 0 /\ After(2) = After(1)

\* A mapping of two entries was applied twice: two changes, then none.
C8_Witness ==
    /\ SetTwice
    /\ Len(inp.program[1].mapping.e) = 2
    /\ NoNestedKeys(inp.program[1].mapping)
    /\ out.results = <<2, 0>>

\* multiply {k: 2} then multiply {k: 3} was applied to the number v at k
MultipliedBy2Then3(k, v) ==
    /\ pc = "applied"
    /\ inp.program[1] = Step("MULTIPLY", Source(<<Entry(k, Num(2))>>))
    /\ inp.program[2] = Step("MULTIPLY", Source(<<Entry(k, Num(3))>>))
    /\ Walk(inp.heap0, inp.target, k) = [kind |-> "value", val |-> Num(v)]

C10_TypeGuard ==
    Len(out.results) >= 1 /\ Len(inp.program[1].mapping.e) = 1 =>
        LET entry == inp.program[1].mapping.e[1]
            isSet == inp.program[1].changeType = "SET_VALUE"
            current == Walk(inp.heap0, inp.target, entry.k)
            rejected == out.results[1] = 0 /\ After(1) = Before
        IN  /\ current.kind # "value" => rejected
            /\ /\ isSet /\ current.kind = "value"
               /\ ModelType(inp.heap0, entry.v) # ModelType(inp.heap0, current.val)
               => rejected
            /\ /\ ~isSet /\ current.kind = "value"
               /\ current.val.t # "number" \/ entry.v.t # "number"
               => rejected
            /\ /\ isSet /\ current.kind = "value"
               /\ ModelType(inp.heap0, entry.v) = ModelType(inp.heap0, current.val)
               /\ Deep(inp.heap0, entry.v) # Deep(inp.heap0, current.val)
               => /\ out.results[1] = 1
                  /\ After(1) = Replaced(Before, entry.k, Deep(inp.heap0, entry.v))

(***************************************************************************)
(* Selectors and overwrites in one pass                                    *)
(***************************************************************************)
\* The record under an id, its properties, and the overwrite resolved to it.
Record(id) == inp.dbItems.at[id]
Properties(h, id) == h[Record(id).a].f["_props"]
OverwriteOf(id) == OverwriteNamed(inp.manualOverwrite, MapGet(out.overwritesMetaData, id).name)
IsOverwritten(id) == MapHas(out.overwritesMetaData, id)

\* The keys a selector or an overwrite names.
TouchedKeys(change) == KeysOrEmpty(change.multiply) \o KeysOrEmpty(change.set)

\* The selector's query is true of the record as it was before the pass.
Matches0(selector, id) ==
    /\ ~evaluateQuery(inp.heap0, selector.query, Record(id)).thrown
    /\ evaluateQuery(inp.heap0, selector.query, Record(id)).val

\* A selector applied the entry under key to the record.
SelectorApplied(id, key) ==
    \E n \in 1..Len(hist) :
        hist[n].phase = "selector" /\ hist[n].id = id /\ hist[n].key = key

\* The contents of the value at a path below v.
DeepAt(h, v, path) ==
    IF Walk(h, v, path).kind = "value" THEN Deep(h, Walk(h, v, path).val)
    ELSE Walk(h, v, path)

\* The entries of a mapping under key alone.
OnlyKey(mapping, key) ==
    IF mapping.kind = "object"
    THEN Source(SelectSeq(mapping.e, LAMBDA x : x.k = key))
    ELSE mapping

\* The value at key of the record after the overwrite's entries under key
\* (multiply, then set) are applied to the record as it was before the pass.
OverwrittenAlone(id, key) ==
    LET multiplied == tryToApplyAllChanges(inp.heap0, Properties(inp.heap0, id),
                          OnlyKey(OverwriteOf(id).multiply, key), "MULTIPLY")
        set == tryToApplyAllChanges(multiplied.h, Properties(inp.heap0, id),
                   OnlyKey(OverwriteOf(id).set, key), "SET_VALUE")
    IN  DeepAt(set.h, Properties(inp.heap0, id), key)

\* A selector with key matches the record, and its overwrite names key too.
SelectorAndOverwrite(id, key) ==
    /\ IsOverwritten(id)
    /\ InSeq(key, TouchedKeys(OverwriteOf(id)))
    /\ \E s \in 1..Len(inp.dynamicSelectors) :
          /\ InSeq(key, TouchedKeys(inp.dynamicSelectors[s]))
          /\ Matches0(inp.dynamicSelectors[s], id)

\* No other path named by a selector or by the record's overwrite leads to
\* key or to a value below key.
NoOverlap(id, key) ==
    LET apart(other) == ~IsPrefix(other, key) /\ ~IsPrefix(key, other)
    IN  /\ \A k \in 1..Len(TouchedKeys(OverwriteOf(id))) :
               apart(TouchedKeys(OverwriteOf(id))[k])
        /\ \A s \in 1..Len(inp.dynamicSelectors) :
               \A k \in 1..Len(TouchedKeys(inp.dynamicSelectors[s])) :
                   apart(TouchedKeys(inp.dynamicSelectors[s])[k])

\* The record is one the pass tweaks, filed under its own _id.
FiledItem(id) ==
    /\ isValidItem(inp.heap0, Record(id))
    /\ StrictEq(ItemField(inp.heap0, Record(id), "_id"), Str(id))

\* After the pass the value at key is what the overwrite alone makes of the
\* original value, and no selector applied its entry under key.
OverwriteAlone(id, key) ==
    /\ DeepAt(heap, Properties(heap, id), key) = OverwrittenAlone(id, key)
    /\ ~SelectorApplied(id, key)

Ids == {inp.dbItems.keys[i] : i \in 1..Len(inp.dbItems.keys)}
Paths == {<<"p">>, <<"a">>, <<"a", "x">>, <<"c">>}

C3_OverwritesLast ==
    \A m, n \in 1..Len(hist) :
        m < n => ~(hist[m].phase = "overwrite" /\ hist[n].phase = "selector")

\* A selector changed something and then an overwrite did.
C3_Witness ==
    \E m, n \in 1..Len(hist) :
        m < n /\ hist[m].phase = "selector" /\ hist[n].phase = "overwrite"

(***************************************************************************)
(* The conflict report                                                     *)
(***************************************************************************)
SeqSet(s) == {s[i] : i \in 1..Len(s)}

\* The conflict check is over.
ConflictsChecked == pc \in {"selectors", "overwrites", "done"}

SelectorPairs ==
    {pair \in (1..Len(out.selectorsMetaData)) \X (1..Len(out.selectorsMetaData)) :
        pair[1] < pair[2]}

\* The ids both selectors match and the properties both change.
SharedIds(pair) ==
    SeqSet(out.selectorsMetaData[pair[1]].matchingIds)
    \cap SeqSet(out.selectorsMetaData[pair[2]].matchingIds)
SharedProperties(pair) ==
    SeqSet(out.selectorsMetaData[pair[1]].changedProperties)
    \cap SeqSet(out.selectorsMetaData[pair[2]].changedProperties)

\* The entries of the report about the two selectors, in either order.
EntriesOf(pair) ==
    {n \in 1..Len(out.conflicts) :
        {out.conflicts[n].first, out.conflicts[n].second} = {pair[1], pair[2]}}

\* The record has an overwrite that names every one of the properties.
Covered(id, properties) ==
    /\ IsOverwritten(id)
    /\ properties \subseteq SeqSet(MapGet(out.overwritesMetaData, id).changedProperties)

AllCovered(pair) == \A id \in SharedIds(pair) : Covered(id, SharedProperties(pair))

\* C11 as stated: a pair of selectors with no shared id has no entry in the
\* conflict report; a pair with shared ids and shared properties has
\* exactly one, and none when an overwrite covers every shared record.
C11_OneEntryPerPair ==
    ConflictsChecked =>
        \A pair \in SelectorPairs :
            /\ SharedIds(pair) = {} => EntriesOf(pair) = {}
            /\ SharedIds(pair) # {} /\ SharedProperties(pair) # {}
                   => Cardinality(EntriesOf(pair)) = IF AllCovered(pair) THEN 0 ELSE 1

\* C11, amended: a pair with shared ids and shared properties has exactly
\* one entry, also when overwrites cover every shared record; the entry
\* then lists no record.
C11_OneEntryPerPairAlsoCovered ==
    ConflictsChecked =>
        \A pair \in SelectorPairs :
            /\ SharedIds(pair) = {} => EntriesOf(pair) = {}
            /\ SharedIds(pair) # {} /\ SharedProperties(pair) # {}
                   => /\ Cardinality(EntriesOf(pair)) = 1
                      /\ AllCovered(pair)
                             => \A n \in EntriesOf(pair) : out.conflicts[n].items = <<>>

\* Two selectors share a record and a property, an overwrite covers the
\* record, and the report has their entry.
C11_Witness ==
    /\ ConflictsChecked
    /\ \E pair \in SelectorPairs :
          /\ SharedIds(pair) # {} /\ SharedProperties(pair) # {}
          /\ AllCovered(pair)
          /\ Cardinality(EntriesOf(pair)) = 1

\* The pair an entry of the report is about.
PairOf(n) == <<out.conflicts[n].first, out.conflicts[n].second>>

\* The properties the entry's warning about the record's overwrite lists
\* ({} when the entry has no warning about it).
WarnedProperties(n, id) ==
    UNION {SeqSet(out.conflicts[n].unresolved[w].properties) :
              w \in {x \in 1..Len(out.conflicts[n].unresolved) :
                        out.conflicts[n].unresolved[x].id = id}}

\* C12 as stated: a shared record stays among the conflict records of an
\* entry unless it has an overwrite that names every shared property.
C12_CoveredRecordsRemoved ==
    ConflictsChecked =>
        \A n \in 1..Len(out.conflicts) :
            \A id \in SharedIds(PairOf(n)) :
                ~Covered(id, SharedProperties(PairOf(n)))
                    => id \in SeqSet(out.conflicts[n].items)

\* C12, amended: a shared record stays among the conflict records of an
\* entry iff it has no overwrite; a record whose overwrite leaves shared
\* properties out is reported in a warning of its own that lists exactly
\* those properties, and a record whose overwrite names them all is not.
C12_OverwrittenRecordsRemoved ==
    ConflictsChecked =>
        \A n \in 1..Len(out.conflicts) :
            \A id \in SharedIds(PairOf(n)) :
                /\ id \in SeqSet(out.conflicts[n].items) <=> ~IsOverwritten(id)
                /\ IsOverwritten(id)
                       => WarnedProperties(n, id)
                              = SharedProperties(PairOf(n))
                                \ SeqSet(MapGet(out.overwritesMetaData, id).changedProperties)
                /\ ~IsOverwritten(id) => WarnedProperties(n, id) = {}

\* An entry of the report shares two kinds of record: one without an
\* overwrite, and one whose overwrite leaves a shared property out, which
\* is not among the conflict records and has a warning.
C12_Witness ==
    /\ ConflictsChecked
    /\ \E n \in 1..Len(out.conflicts) :
          /\ \E id \in SharedIds(PairOf(n)) :
                /\ IsOverwritten(id)
                /\ ~Covered(id, SharedProperties(PairOf(n)))
                /\ id \notin SeqSet(out.conflicts[n].items)
                /\ WarnedProperties(n, id) # {}
          /\ \E id \in SharedIds(PairOf(n)) :
                ~IsOverwritten(id) /\ id \in SeqSet(out.conflicts[n].items)

\* The meta data as collected from the records before the pass.
CollectedSelectors == SelectorMetaFrom(inp.heap0, inp.dbItems, inp.dynamicSelectors, 1)
CollectedOverwrites == OverwriteMetaFrom(inp.heap0, inp.dbItems, inp.manualOverwrite, 1, <<>>)

\* The records after the selectors from i on, then the overwrites from j on,
\* are applied to h with the given meta data and nothing else is done.
RECURSIVE TweaksFrom(_, _, _, _, _)
TweaksFrom(h, metas, overwrites, i, j) ==
    LET after(result) == IF result.thrown THEN h ELSE result.h
        ids(meta) == IF Len(meta.affectedIds) < 1 THEN meta.matchingIds ELSE meta.affectedIds
        overwriteSelector(itemId, overwrite) ==
            Selector(BasicExpression(<<"_id">>, Str("equals"), <<Str(itemId)>>, Undef, Undef),
                     overwrite.multiply, overwrite.set, Undef)
    IN  IF i <= Len(metas)
        THEN TweaksFrom(IF metas[i].isValid
                        THEN after(applySelector(h, inp.dbItems, inp.dynamicSelectors[i],
                                                 ids(metas[i]), overwrites))
                        ELSE h,
                        metas, overwrites, i + 1, j)
        ELSE IF j <= Len(overwrites)
        THEN TweaksFrom(after(applySelector(h, inp.dbItems,
                                  overwriteSelector(overwrites[j].id,
                                      OverwriteNamed(inp.manualOverwrite, overwrites[j].name)),
                                  <<overwrites[j].id>>, <<>>)),
                        metas, overwrites, i, j + 1)
        ELSE h

\* Selector s was applied: the pass reported its counters.
SelectorReported(s) ==
    \E n \in 1..Len(out.results) :
        out.results[n].phase = "selector" /\ out.results[n].who = s

\* C13: the conflict check leaves the meta data as collected and the
\* records as they were; the records after the pass are those of the
\* selectors and the overwrites applied without any check; and the two
\* selectors of every entry of the report are applied.
C13_ConflictCheckReadOnly ==
    /\ ConflictsChecked
           => /\ out.selectorsMetaData = CollectedSelectors.val
              /\ out.overwritesMetaData = CollectedOverwrites.val
    /\ ConflictsChecked /\ out.results = <<>> => heap = inp.heap0
    /\ pc = "done"
           => /\ heap = TweaksFrom(inp.heap0, CollectedSelectors.val,
                                   CollectedOverwrites.val, 1, 1)
              /\ \A n \in 1..Len(out.conflicts) :
                     /\ SelectorReported(out.conflicts[n].first)
                     /\ SelectorReported(out.conflicts[n].second)

\* A pass is over whose report has an entry with a conflict record, and
\* both selectors of the entry changed that record.
C13_Witness ==
    /\ pc = "done"
    /\ \E n \in 1..Len(out.conflicts) :
          \E id \in SeqSet(out.conflicts[n].items) :
              \E k, m \in 1..Len(hist) :
                  /\ hist[k].phase = "selector" /\ hist[k].who = out.conflicts[n].first
                  /\ hist[k].id = id
                  /\ hist[m].phase = "selector" /\ hist[m].who = out.conflicts[n].second
                  /\ hist[m].id = id

(***************************************************************************)
(* Applicator.getNestedProperty and setNestedProperty on their own: one    *)
(* read or one write of a path of a record.                                *)
(***************************************************************************)
\* The record at 11, its trees at 21 and 22, its array at 31; the tree a
\* write may install at 41.
PathHeap(v) ==
    (11 :> Obj([p |-> Num(v), q |-> Str(<<"x">>), n |-> Null, a |-> Ref(21), l |-> Ref(31)]))
    @@ (21 :> Obj([x |-> Num(1), b |-> Ref(22)]))
    @@ (22 :> Obj([y |-> Num(2)]))
    @@ (31 :> Arr([i \in {"0"} |-> Num(1)]))
    @@ (41 :> Obj([x |-> Num(0)]))

PropertyPaths ==
    {<<"p">>, <<"z">>, <<"n">>, <<"a">>, <<"a", "x">>, <<"a", "z">>, <<"z", "x">>,
     <<"p", "x">>, <<"q", "x">>, <<"n", "x">>, <<"l", "0">>, <<"l", "1">>,
     <<"a", "b", "y">>, <<"a", "b", "z">>, <<"a", "z", "y">>, <<"a", "x", "y">>,
     <<"z", "x", "y">>}

Targets == {Ref(11), Ref(21), Null, Undef, Num(1)}

WrittenValues == {Num(7), Null, Ref(41)}

InitPath ==
    \E v \in 0..MaxNum, target \in Targets, path \in PropertyPaths, value \in WrittenValues :
        /\ heap = PathHeap(v)
        /\ inp = [target |-> target, path |-> path, value |-> value, heap0 |-> PathHeap(v)]
        /\ pc = "path"
        /\ out = Ret(Undef)
        /\ hist = <<>>

ReadProperty ==
    /\ pc = "path"
    /\ pc' = "read"
    /\ out' = getNestedProperty(heap, inp.target, inp.path)
    /\ UNCHANGED <<heap, inp, hist>>

WriteProperty ==
    /\ pc = "path"
    /\ pc' = "written"
    /\ LET written(result) ==
               /\ out' = [thrown |-> result.thrown]
               /\ heap' = IF result.thrown THEN heap ELSE result.val
       IN  written(setNestedProperty(heap, inp.target, inp.path, inp.value))
    /\ UNCHANGED <<inp, hist>>

NextPath ==
    \/ ReadProperty
    \/ WriteProperty

SpecPath == InitPath /\ [][NextPath]_vars

\* The path, cut before its last segment.
Front(path) == SubSeq(path, 1, Len(path) - 1)

\* Some segment before the last is missing where the path looks for it.
MissingIntermediate(h, v, path) ==
    \E k \in 1..(Len(path) - 1) : Walk(h, v, SubSeq(path, 1, k)).kind = "absent"

\* C14 as stated: a read raises exactly when the traversal meets a value
\* that is not a tree where it expects one; where a segment is missing,
\* the last or one before it, it returns the absent marker; otherwise it
\* returns the value at the path.
C14_ReadAbsent ==
    pc = "read" =>
        /\ out.thrown <=> Walk(inp.heap0, inp.target, inp.path).kind = "fault"
        /\ Walk(inp.heap0, inp.target, inp.path).kind = "absent" => out = Ret(Undef)
        /\ Walk(inp.heap0, inp.target, inp.path).kind = "value"
               => out = Ret(Walk(inp.heap0, inp.target, inp.path).val)

\* C14, amended: a read raises exactly when the traversal meets a value
\* that is not a tree where it expects one or when a segment before the
\* last is missing; where only the last segment is missing it returns the
\* absent marker; otherwise it returns the value at the path.
C14_ReadAbsentLastSegment ==
    pc = "read" =>
        /\ out.thrown <=> \/ Walk(inp.heap0, inp.target, inp.path).kind = "fault"
                          \/ MissingIntermediate(inp.heap0, inp.target, inp.path)
        /\ (/\ Walk(inp.heap0, inp.target, inp.path).kind = "absent"
            /\ ~MissingIntermediate(inp.heap0, inp.target, inp.path))
               => out = Ret(Undef)
        /\ Walk(inp.heap0, inp.target, inp.path).kind = "value"
               => out = Ret(Walk(inp.heap0, inp.target, inp.path).val)

\* a.z.y was read from the record, whose tree a has no z, and the read
\* raised.
C14_Witness ==
    /\ pc = "read"
    /\ inp.target = Ref(11)
    /\ inp.path = <<"a", "z", "y">>
    /\ MissingIntermediate(inp.heap0, inp.target, inp.path)
    /\ out.thrown

\* The contents d with x at path, the last segment added where d lacks it.
RECURSIVE Written(_, _, _)
Written(d, path, x) ==
    IF path = <<>> THEN x
    ELSE [d EXCEPT !.f = [k \in DOMAIN d.f \cup {Head(path)} |->
                             IF k # Head(path) THEN d.f[k]
                             ELSE IF Len(path) = 1 THEN x
                             ELSE Written(d.f[k], Tail(path), x)]]

\* The path leads to a place in a tree or an array of the record.
Writable(h, v, path) ==
    /\ Walk(h, v, Front(path)).kind = "value"
    /\ Walk(h, v, Front(path)).val.t = "ref"

\* C15: a write that raises leaves every object as it was; a write that
\* returns has put the value at the path and left everything else of the
\* record as it was; and it returns exactly when the path leads to a place
\* in a tree of the record.
C15_WriteAtomic ==
    pc = "written" =>
        /\ out.thrown <=> ~Writable(inp.heap0, inp.target, inp.path)
        /\ out.thrown => heap = inp.heap0
        /\ ~out.thrown
               => /\ Deep(heap, inp.target)
                         = Written(Deep(inp.heap0, inp.target), inp.path,
                                   Deep(inp.heap0, inp.value))
                  /\ \A a \in DOMAIN heap :
                         a # Walk(inp.heap0, inp.target, Front(inp.path)).val.a
                             => heap[a] = inp.heap0[a]

\* A write of a.z.y to the record, whose tree a has no z, raised.
C15_Witness ==
    /\ pc = "written"
    /\ inp.target = Ref(11)
    /\ inp.path = <<"a", "z", "y">>
    /\ inp.value = Ref(41)
    /\ out.thrown

(***************************************************************************)
(* tryToApplyAllChanges against the applications of its entries            *)
(***************************************************************************)
\* The application of entry i of a step's mapping on its own.
ApplyEntry(h, step, i) ==
    IF step.changeType = "MULTIPLY"
    THEN tryToApplyMultiplier(h, inp.target, step.mapping, step.mapping.e[i].k)
    ELSE tryToApplyValue(h, inp.target, step.mapping, step.mapping.e[i].k)

\* Entry i of the step passes the guard of its application on the heap h, so
\* that the application goes on to read and write the property.
Guarded(h, step, i) ==
    IF step.changeType = "MULTIPLY"
    THEN canApplyMultiplier(h, inp.target, step.mapping, step.mapping.e[i].k)
    ELSE canApplyValue(h, inp.target, step.mapping, step.mapping.e[i].k)

\* The entries of the step applied one by one from entry i on, each on the
\* heap the one before it left: the results in order, the heap at the end,
\* and whether a read or a write after a passed guard raised.
RECURSIVE EntryByEntry(_, _, _)
EntryByEntry(h, step, i) ==
    LET key == step.mapping.e[i].k
        raised ==
            /\ Guarded(h, step, i)
            /\ \/ getNestedProperty(h, inp.target, key).thrown
               \/ setNestedProperty(h, inp.target, key, Lookup(step.mapping, key)).thrown
        after(rest) ==
            [results |-> <<ApplyEntry(h, step, i).n>> \o rest.results,
             h |-> rest.h, raised |-> raised \/ rest.raised]
    IN  IF i > Len(step.mapping.e) THEN [results |-> <<>>, h |-> h, raised |-> FALSE]
        ELSE IF raised THEN [results |-> <<>>, h |-> h, raised |-> TRUE]
        ELSE after(EntryByEntry(ApplyEntry(h, step, i).h, step, i + 1))

RECURSIVE SumOf(_)
SumOf(s) == IF s = <<>> THEN 0 ELSE Head(s) + SumOf(Tail(s))

HeapBefore(n) == IF n = 1 THEN inp.heap0 ELSE out.heaps[n - 1]

\* C16: an application of a whole mapping, absent and null mappings and
\* mappings with rejected entries included, raises nothing, applies every
\* entry on the record as the entries before it left it whether or not they
\* were rejected, and returns the sum of the 0/1 results of the entries.
C16_AllEntriesSummed ==
    \A n \in 1..Len(out.results) :
        LET one == EntryByEntry(HeapBefore(n), inp.program[n], 1)
        IN  /\ ~one.raised
            /\ Len(one.results) = Len(inp.program[n].mapping.e)
            /\ \A i \in 1..Len(one.results) : one.results[i] \in {0, 1}
            /\ out.results[n] = SumOf(one.results)
            /\ out.heaps[n] = one.h

\* An absent mapping returned 0, and a mapping whose first entry was rejected
\* had its second entry applied.
C16_Witness ==
    /\ pc = "applied"
    /\ inp.program[1].mapping = NoSource
    /\ out.results = <<0, 1>>
    /\ EntryByEntry(out.heaps[1], inp.program[2], 1).results = <<0, 1>>
    /\ heap # inp.heap0

(***************************************************************************)
(* Selectors with a structural error                                       *)
(***************************************************************************)
\* The shape of a query as the configuration format defines it: a Basic
\* expression has a key and a list of values, a Logical expression has a
\* condition and a list of expressions that are queries themselves.
RECURSIVE WellFormed(_)
WellFormed(query) ==
    /\ query.t = "object"
    /\ \/ /\ query.key.t = "string"
          /\ query.values.t = "array"
          /\ query.condition.t = "undefined"
       \/ /\ query.condition.t = "string"
          /\ query.condition.v \in {"and", "or"}
          /\ query.expressions.t = "array"
          /\ query.key.t = "undefined"
          /\ \A n \in 1..Len(query.expressions.v) : WellFormed(query.expressions.v[n])

IsMapping(sourceObj) == sourceObj.kind \in {"undefined", "object"}

\* The selector has a malformed query, or a multiply or set that is not a
\* mapping.
Malformed(selector) ==
    \/ ~WellFormed(selector.query)
    \/ ~IsMapping(selector.multiply)
    \/ ~IsMapping(selector.set)

MalformedSelectors == {s \in DOMAIN inp.dynamicSelectors : Malformed(inp.dynamicSelectors[s])}
Collected == pc \in {"conflicts", "selectors", "overwrites", "done"}

\* C17 as stated: a malformed selector is never fatal to the pass; it gets
\* the validity flag false and mutates no record, and the pass goes on to
\* every valid selector and every resolved overwrite.
C17_StructuralErrorsNotFatal ==
    MalformedSelectors # {} =>
        /\ pc # "aborted"
        /\ \A s \in MalformedSelectors :
              /\ Collected => ~out.selectorsMetaData[s].isValid
              /\ \A n \in 1..Len(hist) : ~(hist[n].phase = "selector" /\ hist[n].who = s)
        /\ pc = "done" =>
              /\ \A s \in DOMAIN inp.dynamicSelectors :
                    out.selectorsMetaData[s].isValid
                    => \E n \in 1..Len(out.results) :
                          out.results[n].phase = "selector" /\ out.results[n].who = s
              /\ \A o \in 1..Len(out.overwritesMetaData) :
                    \E n \in 1..Len(out.results) :
                        out.results[n].phase = "overwrite" /\ out.results[n].who = o

(***************************************************************************)
(* Overwrites whose name no record has                                     *)
(***************************************************************************)
\* Some record of the collection has the name as its _name.
Resolves(itemName) ==
    \E n \in 1..Len(inp.dbItems.keys) :
        ItemField(inp.heap0, inp.dbItems.at[inp.dbItems.keys[n]], "_name") = Str(itemName)

ResolvedOverwrites == SelectSeq(inp.manualOverwrite, LAMBDA o : Resolves(o.name))
UnresolvedOverwrite == \E n \in 1..Len(inp.manualOverwrite) : ~Resolves(inp.manualOverwrite[n].name)

\* Overwrite o of the meta data was applied: the pass reported its counter.
OverwriteReported(o) ==
    \E n \in 1..Len(out.results) :
        out.results[n].phase = "overwrite" /\ out.results[n].who = o

\* The collection of the selectors' meta data raises, or the application of
\* the selector the pass is at raises on the records as they are.
StoppedBySelector ==
    \/ CollectedSelectors.thrown
    \/ /\ out.i \in DOMAIN out.selectorsMetaData
       /\ out.selectorsMetaData[out.i].isValid
       /\ applySelector(heap, inp.dbItems, inp.dynamicSelectors[out.i],
                        IF Len(out.selectorsMetaData[out.i].affectedIds) < 1
                        THEN out.selectorsMetaData[out.i].matchingIds
                        ELSE out.selectorsMetaData[out.i].affectedIds,
                        out.overwritesMetaData).thrown

\* C18: an overwrite whose name is the _name of no record is skipped
\* entirely: the meta data collected, and so the records kept from the
\* selectors, are those of the configuration without it; no change is made
\* on its behalf; and a pass that ends has left the records as that
\* configuration leaves them, with every valid selector and every other
\* overwrite applied; a pass that does not end was stopped by a selector.
C18_UnresolvedSkipped ==
    UnresolvedOverwrite =>
        /\ Collected =>
              /\ out.overwritesMetaData =
                     OverwriteMetaFrom(inp.heap0, inp.dbItems, ResolvedOverwrites, 1, <<>>).val
              /\ Len(out.overwritesMetaData) = Len(ResolvedOverwrites)
              /\ \A o \in 1..Len(out.overwritesMetaData) :
                     Resolves(out.overwritesMetaData[o].name)
        /\ \A n \in 1..Len(hist) :
              hist[n].phase = "overwrite"
              => Resolves(out.overwritesMetaData[hist[n].who].name)
        /\ pc = "done" =>
              /\ heap = TweaksFrom(inp.heap0, CollectedSelectors.val,
                            OverwriteMetaFrom(inp.heap0, inp.dbItems, ResolvedOverwrites,
                                              1, <<>>).val, 1, 1)
              /\ \A s \in DOMAIN inp.dynamicSelectors :
                     out.selectorsMetaData[s].isValid => SelectorReported(s)
              /\ \A o \in 1..Len(out.overwritesMetaData) : OverwriteReported(o)
        /\ pc = "aborted" => StoppedBySelector

\* A pass is over whose configuration has an overwrite that resolves to no
\* record and one that resolves; the second changed its record, and a
\* selector changed a record too.
C18_Witness ==
    /\ pc = "done"
    /\ UnresolvedOverwrite
    /\ Len(ResolvedOverwrites) > 0
    /\ \E n \in 1..Len(hist) : hist[n].phase = "overwrite"
    /\ \E n \in 1..Len(hist) : hist[n].phase = "selector"

(***************************************************************************)
(* Faults and mutations                                                    *)
(***************************************************************************)
\* C19 as stated: a pass that raises has changed no property of any record.
C19_AbortBeforeMutation ==
    pc = "aborted" => hist = <<>> /\ heap = inp.heap0

(***************************************************************************)
(* Matching and affected ids                                               *)
(***************************************************************************)
\* Some entry of the selector's multiply passes canApplyMultiplier, or some
\* entry of its set passes canApplyValue, on the properties of the record.
SomeEntryApplies(selector, id) ==
    \/ \E n \in 1..Len(selector.multiply.e) :
          canApplyMultiplier(inp.heap0, Properties(inp.heap0, id), selector.multiply,
                             selector.multiply.e[n].k)
    \/ \E n \in 1..Len(selector.set.e) :
          canApplyValue(inp.heap0, Properties(inp.heap0, id), selector.set,
                        selector.set.e[n].k)

\* C20: the affected ids of a valid selector are among its matching ids, and
\* a matching id is affected exactly when some entry of the selector's
\* multiply or set can be applied to its record.
C20_AffectedAmongMatching ==
    Collected =>
        \A s \in DOMAIN out.selectorsMetaData :
            out.selectorsMetaData[s].isValid =>
                /\ SeqSet(out.selectorsMetaData[s].affectedIds)
                       \subseteq SeqSet(out.selectorsMetaData[s].matchingIds)
                /\ \A id \in SeqSet(out.selectorsMetaData[s].matchingIds) :
                       id \in SeqSet(out.selectorsMetaData[s].affectedIds)
                       <=> SomeEntryApplies(inp.dynamicSelectors[s], id)

\* A valid selector matches a record it affects and a record it does not.
C20_Witness ==
    /\ Collected
    /\ \E s \in DOMAIN out.selectorsMetaData :
          /\ out.selectorsMetaData[s].isValid
          /\ \E id \in SeqSet(out.selectorsMetaData[s].matchingIds) :
                 /\ id \notin SeqSet(out.selectorsMetaData[s].affectedIds)
                 /\ ~SomeEntryApplies(inp.dynamicSelectors[s], id)
          /\ \E id \in SeqSet(out.selectorsMetaData[s].affectedIds) :
                 SomeEntryApplies(inp.dynamicSelectors[s], id)

(***************************************************************************)
(* The pass as a function of its selectors                                 *)
(***************************************************************************)
\* The records and the logged counters after the selectors from i on, in
\* the order of the sequence, then the overwrites from j on, are applied to
\* h: postDBLoad for the given selectors and their meta data.
RECURSIVE PassFrom(_, _, _, _, _, _, _)
PassFrom(h, selectors, metas, overwrites, i, j, results) ==
    LET ids(meta) == IF Len(meta.affectedIds) < 1 THEN meta.matchingIds ELSE meta.affectedIds
        overwriteSelector(itemId, overwrite) ==
            Selector(BasicExpression(<<"_id">>, Str("equals"), <<Str(itemId)>>, Undef, Undef),
                     overwrite.multiply, overwrite.set, Undef)
        selectorDone(tweakResult) ==
            IF tweakResult.thrown THEN [thrown |-> TRUE]
            ELSE PassFrom(tweakResult.h, selectors, metas, overwrites, i + 1, j,
                          Append(results, Logged("selector", i, tweakResult)))
        overwriteDone(overwriteResult) ==
            IF overwriteResult.thrown THEN [thrown |-> TRUE]
            ELSE PassFrom(overwriteResult.h, selectors, metas, overwrites, i, j + 1,
                          Append(results, Logged("overwrite", j, overwriteResult)))
    IN  IF i <= Len(metas)
        THEN IF metas[i].isValid
             THEN selectorDone(applySelector(h, inp.dbItems, selectors[i], ids(metas[i]),
                                             overwrites))
             ELSE PassFrom(h, selectors, metas, overwrites, i + 1, j, results)
        ELSE IF j <= Len(overwrites)
        THEN overwriteDone(applySelector(h, inp.dbItems,
                               overwriteSelector(overwrites[j].id,
                                   OverwriteNamed(inp.manualOverwrite, overwrites[j].name)),
                               <<overwrites[j].id>>, <<>>))
        ELSE [thrown |-> FALSE, h |-> h, results |-> results]

\* The whole pass on the records as loaded, for the given selectors.
PassOf(selectors) ==
    LET run(metas) ==
            IF metas.thrown \/ CollectedOverwrites.thrown THEN [thrown |-> TRUE]
            ELSE PassFrom(inp.heap0, selectors, metas.val, CollectedOverwrites.val, 1, 1, <<>>)
    IN  run(SelectorMetaFrom(inp.heap0, inp.dbItems, selectors, 1))

\* The selectors of the configuration with other priorities: none at all,
\* ascending and descending along the configuration.
Reprioritised ==
    {[s \in DOMAIN inp.dynamicSelectors |-> [inp.dynamicSelectors[s] EXCEPT !.priority = Undef]],
     [s \in DOMAIN inp.dynamicSelectors |-> [inp.dynamicSelectors[s] EXCEPT !.priority = Num(s)]],
     [s \in DOMAIN inp.dynamicSelectors |->
         [inp.dynamicSelectors[s] EXCEPT !.priority = Num(Len(inp.dynamicSelectors) + 1 - s)]]}

\* C21: the selectors' counters are logged in configuration order, and a
\* pass that ends leaves the records and logs the counters that the same
\* configuration with other values of priority leaves and logs.
C21_PriorityNotConsulted ==
    /\ \A m, n \in 1..Len(out.results) :
          m < n /\ out.results[m].phase = "selector" /\ out.results[n].phase = "selector"
          => out.results[m].who < out.results[n].who
    /\ pc = "done" =>
          \A selectors \in Reprioritised :
              /\ ~PassOf(selectors).thrown
              /\ PassOf(selectors).h = heap
              /\ PassOf(selectors).results = out.results

\* A pass is over in which the second selector has the higher priority and
\* both selectors changed the same record, the first one first.
C21_Witness ==
    /\ pc = "done"
    /\ inp.dynamicSelectors[1].priority = Num(1)
    /\ inp.dynamicSelectors[2].priority = Num(2)
    /\ \E m, n \in 1..Len(hist) :
          /\ m < n
          /\ hist[m].phase = "selector" /\ hist[m].who = 1
          /\ hist[n].phase = "selector" /\ hist[n].who = 2
          /\ hist[m].id = hist[n].id

(***************************************************************************)
(* The entries of the record collection                                    *)
(***************************************************************************)
\* The identifiers of the collection as the records of a heap carry them:
\* the keys under which a record is filed together with its own _id.
RecordIds(h) ==
    {<<inp.dbItems.keys[n], h[Record(inp.dbItems.keys[n]).a].f["_id"]>> :
        n \in {m \in 1..Len(inp.dbItems.keys) : Record(inp.dbItems.keys[m]).a \in DOMAIN h}}

\* C22: at every point of the pass the collection has the records it had
\* before the pass, under the same identifiers; no object is created or
\* deleted and no object gains or loses a property: the pass changes values
\* of properties that exist.
C22_NoEntryCreatedOrDeleted ==
    /\ RecordIds(heap) = RecordIds(inp.heap0)
    /\ Cardinality(RecordIds(heap)) = Len(inp.dbItems.keys)
    /\ \A n \in 1..Len(inp.dbItems.keys) :
          heap[Record(inp.dbItems.keys[n]).a] = inp.heap0[Record(inp.dbItems.keys[n]).a]
    /\ DOMAIN heap = DOMAIN inp.heap0
    /\ \A a \in DOMAIN heap : DOMAIN heap[a].f = DOMAIN inp.heap0[a].f

\* A pass is over in which a selector and an overwrite have changed records,
\* and an overwrite with a set for a property that its record does not have
\* was applied.
C22_Witness ==
    /\ pc = "done"
    /\ \E n \in 1..Len(hist) : hist[n].phase = "selector"
    /\ \E n \in 1..Len(hist) : hist[n].phase = "overwrite"
    /\ \E o \in 1..Len(out.overwritesMetaData) :
          /\ OverwriteReported(o)
          /\ isValidItem(inp.heap0, Record(out.overwritesMetaData[o].id))
          /\ \E n \in 1..Len(OverwriteOf(out.overwritesMetaData[o].id).set.e) :
                 Walk(inp.heap0, Properties(inp.heap0, out.overwritesMetaData[o].id),
                      OverwriteOf(out.overwritesMetaData[o].id).set.e[n].k).kind = "absent"
    /\ heap # inp.heap0

(***************************************************************************)
(* Query.isQuery on its own: one value of the configuration validated.     *)
(***************************************************************************)
\* An object of the configuration with the given fields (Undef: no such
\* field).
Candidate(key, operation, values, negation, strict, condition, expressions) ==
    [t |-> "object", key |-> key, operation |-> operation, values |-> values,
     negation |-> negation, strict |-> strict, condition |-> condition,
     expressions |-> expressions]

BasicCandidates ==
    {Candidate(key, operation, values, negation, strict, Undef, Undef) :
        key \in {Undef, Str(<<"c">>)}, operation \in {Undef, Str("equals"), Num(1)},
        values \in {Undef, List(<<Str(rifle)>>)}, negation \in {Undef, Bool(TRUE), Num(1)},
        strict \in {Undef, Bool(FALSE)}}

ChildLists ==
    {Undef, List(<<>>),
     List(<<BasicExpression(<<"c">>, Undef, <<Str(rifle)>>, Undef, Undef)>>),
     List(<<BasicExpression(<<"c">>, Undef, <<Str(rifle)>>, Undef, Undef),
            Candidate(Str(<<"c">>), Undef, Undef, Undef, Undef, Undef, Undef)>>),
     List(<<LogicalExpression("and",
                <<BasicExpression(<<"c">>, Str("equals"), <<Str(rifle)>>, Undef, Undef)>>,
                Undef)>>),
     List(<<BasicExpression(<<"c">>, Undef, <<Str(rifle)>>, Undef, Undef), Num(5)>>),
     List(<<Null>>)}

LogicalCandidates ==
    {Candidate(key, Undef, Undef, negation, Undef, condition, expressions) :
        key \in {Undef, Str(<<"c">>)}, negation \in {Undef, Bool(FALSE), Num(1)},
        condition \in {Undef, Str("and"), Str("or"), Str("xor")},
        expressions \in ChildLists}

Candidates ==
    BasicCandidates \cup LogicalCandidates
    \cup {Null, Undef, Num(5), Str(<<"c">>), List(<<>>),
          Candidate(Str(<<"c">>), Undef, List(<<Str(rifle)>>), Undef, Undef, Str("and"),
                    List(<<BasicExpression(<<"c">>, Undef, <<Str(rifle)>>, Undef, Undef)>>))}

InitValid ==
    \E value \in Candidates :
        /\ heap = <<>>
        /\ inp = [value |-> value]
        /\ pc = "validate"
        /\ out = [isQuery |-> Ret(FALSE), isBasicExpr |-> Ret(FALSE), isLogicExpr |-> Ret(FALSE)]
        /\ hist = <<>>

\* Query.isQuery(value), with the two tests it is made of.
ValidateQuery ==
    /\ pc = "validate"
    /\ pc' = "validated"
    /\ out' = [isQuery |-> isQuery(inp.value),
               isBasicExpr |-> isBasicExpression(inp.value),
               isLogicExpr |-> isLogicalExpression(inp.value)]
    /\ UNCHANGED <<heap, inp, hist>>

NextValid == ValidateQuery

SpecValid == InitValid /\ [][NextValid]_vars

\* The data model: a Basic expression has a key, a list of values and, if
\* present, an operation, a negation and a strict flag of the right type; a
\* Logical expression has a condition and or or, a list of expressions of
\* the data model and, if present, a negation.
BasicOfModel(v) ==
    /\ v.t = "object"
    /\ v.key.t = "string"
    /\ v.values.t = "array"
    /\ v.operation.t \in {"undefined", "string"}
    /\ v.negation.t \in {"undefined", "boolean"}
    /\ v.strict.t \in {"undefined", "boolean"}

RECURSIVE LogicalOfModel(_)
LogicalOfModel(v) ==
    /\ v.t = "object"
    /\ v.condition.t = "string"
    /\ v.condition.v \in {"and", "or"}
    /\ v.negation.t \in {"undefined", "boolean"}
    /\ v.expressions.t = "array"
    /\ \A n \in 1..Len(v.expressions.v) :
          LET child == v.expressions.v[n]
          IN  (BasicOfModel(child) /\ ~LogicalOfModel(child))
              \/ (LogicalOfModel(child) /\ ~BasicOfModel(child))

OfModel(v) ==
    (BasicOfModel(v) /\ ~LogicalOfModel(v)) \/ (LogicalOfModel(v) /\ ~BasicOfModel(v))

\* C23 as stated: the validation of any value returns, true exactly for the
\* expressions of the data model.
C23_RecognisesDataModel ==
    pc = "validated" =>
        /\ ~out.isQuery.thrown
        /\ out.isQuery.val <=> OfModel(inp.value)

(***************************************************************************)
(* The step of an overwrite                                                *)
(***************************************************************************)
\* The record's overwrite applied to its properties on the heap h: every
\* entry of multiply, then every entry of set, each subject to the type
\* guard only.
OverwriteApplied(h, id) ==
    LET set(multiplied) ==
            [multiplied |-> multiplied,
             set |-> tryToApplyAllChanges(multiplied.h, Properties(h, id),
                                          OverwriteOf(id).set, "SET_VALUE")]
    IN  set(tryToApplyAllChanges(h, Properties(h, id), OverwriteOf(id).multiply, "MULTIPLY"))

\* The step of the pass for the overwrite of the record leaves the records
\* and logs the count of OverwriteApplied.
OverwriteStepApplies(id) ==
    /\ pc' # "aborted"
    /\ heap' = OverwriteApplied(heap, id).set.h
    /\ out'.results[Len(out'.results)] =
           [phase |-> "overwrite", who |-> out.i,
            changeCount |-> OverwriteApplied(heap, id).multiplied.n
                            + OverwriteApplied(heap, id).set.n,
            changedItemCount |-> IF OverwriteApplied(heap, id).multiplied.n
                                    + OverwriteApplied(heap, id).set.n > 0 THEN 1 ELSE 0]

\* C24 as stated: every overwrite of the meta data has its multiply and
\* then its set applied to its record, whatever the record's other fields.
C24_OverwriteUnconditional ==
    [][pc = "overwrites" => OverwriteStepApplies(out.overwritesMetaData[out.i].id)]_vars

\* C24 amended: the same for an overwrite whose record passes the item
\* validator and is filed under its own _id.
C24_OverwriteOfFiledItem ==
    [][pc = "overwrites" /\ FiledItem(out.overwritesMetaData[out.i].id)
       => OverwriteStepApplies(out.overwritesMetaData[out.i].id)]_vars

\* A pass is over in which two overwrites were applied, one of them with a
\* change by its multiply followed by a change by its set.
C24_Witness ==
    /\ pc = "done"
    /\ Len(out.overwritesMetaData) = 2
    /\ \A o \in 1..2 : FiledItem(out.overwritesMetaData[o].id) /\ OverwriteReported(o)
    /\ \E m, n \in 1..Len(hist) :
          /\ m < n
          /\ hist[m].phase = "overwrite" /\ hist[m].type = "MULTIPLY"
          /\ hist[n].phase = "overwrite" /\ hist[n].type = "SET_VALUE"
          /\ hist[m].who = hist[n].who

(***************************************************************************)
(* The matching ids and the truth set of the query                         *)
(***************************************************************************)
\* C25 as stated: the matching ids of a valid selector are the ids of the
\* records its query is true of.
C25_MatchingIsTruthSet ==
    Collected =>
        \A s \in DOMAIN out.selectorsMetaData, id \in Ids :
            out.selectorsMetaData[s].isValid
            => (id \in SeqSet(out.selectorsMetaData[s].matchingIds)
                <=> Matches0(inp.dynamicSelectors[s], id))

\* C25 amended: the matching ids of a valid selector are the ids of the
\* records that pass the item validator and of which its query is true.
C25_MatchingIsTruthSetOfItems ==
    Collected =>
        \A s \in DOMAIN out.selectorsMetaData, id \in Ids :
            out.selectorsMetaData[s].isValid
            => (id \in SeqSet(out.selectorsMetaData[s].matchingIds)
                <=> (isValidItem(inp.heap0, Record(id))
                     /\ Matches0(inp.dynamicSelectors[s], id)))

\* The query of a valid selector is true of a record that is no item and of
\* a record that is one; the second is among the matching ids, the first is
\* not.
C25_Witness ==
    /\ Collected
    /\ \E s \in DOMAIN out.selectorsMetaData :
          /\ out.selectorsMetaData[s].isValid
          /\ \E id \in Ids :
                 /\ ~isValidItem(inp.heap0, Record(id))
                 /\ Matches0(inp.dynamicSelectors[s], id)
                 /\ id \notin SeqSet(out.selectorsMetaData[s].matchingIds)
          /\ \E id \in Ids :
                 /\ Matches0(inp.dynamicSelectors[s], id)
                 /\ id \in SeqSet(out.selectorsMetaData[s].matchingIds)

(***************************************************************************)
(* The comparison of the old and the new value of a set                    *)
(***************************************************************************)
\* The first application of the program is a set of one entry.
SetOfOneEntry ==
    /\ Len(out.results) >= 1
    /\ inp.program[1].changeType = "SET_VALUE"
    /\ inp.program[1].mapping.kind = "object"
    /\ Len(inp.program[1].mapping.e) = 1

\* The entry's value has the contents of the value the record holds at the
\* entry's key.
ValueEqual(entry) ==
    /\ Walk(inp.heap0, inp.target, entry.k).kind = "value"
    /\ Deep(inp.heap0, entry.v) = Deep(inp.heap0, Walk(inp.heap0, inp.target, entry.k).val)

\* C26 as stated: a set returns 1 and writes exactly when canApplyValue
\* holds and the new value is not value-equal to the current one; a set of
\* a value-equal value, arrays and trees included, returns 0 and leaves the
\* record as it was.
C26_SetComparesByValue ==
    SetOfOneEntry =>
        LET entry == inp.program[1].mapping.e[1]
            can == canApplyValue(inp.heap0, inp.target, inp.program[1].mapping, entry.k)
        IN  /\ out.results[1] = 1 <=> (can /\ ~ValueEqual(entry))
            /\ out.results[1] = 0 => out.heaps[1] = inp.heap0
            /\ ValueEqual(entry) => out.results[1] = 0 /\ After(1) = Before

(***************************************************************************)
(* The type rule of a set                                                  *)
(***************************************************************************)
\* C27 as stated: canApplyValue holds exactly when the path leads to a
\* value whose type among null, boolean, number, string, array and tree is
\* the type of the new value.
C27_SetTypeRule ==
    SetOfOneEntry =>
        LET entry == inp.program[1].mapping.e[1]
            current == Walk(inp.heap0, inp.target, entry.k)
        IN  canApplyValue(inp.heap0, inp.target, inp.program[1].mapping, entry.k)
            <=> (/\ current.kind = "value"
                 /\ ModelType(inp.heap0, current.val) = ModelType(inp.heap0, entry.v))

(***************************************************************************)
(* The ids a selector is applied to                                        *)
(***************************************************************************)
\* The id list of selector s as collected before the first selector.
ItemIdsOf(s) ==
    IF Len(out.selectorsMetaData[s].affectedIds) < 1
    THEN out.selectorsMetaData[s].matchingIds
    ELSE out.selectorsMetaData[s].affectedIds

\* The selector's query is true of the record as it is on the heap h.
MatchesOn(h, selector, id) ==
    /\ ~evaluateQuery(h, selector.query, Record(id)).thrown
    /\ evaluateQuery(h, selector.query, Record(id)).val

\* C28: every change the step of a selector makes is made to a record whose
\* id is in the list collected for that selector on the records as loaded,
\* and of which the selector's query is true on the records as they are
\* when the selector is applied.
C28_StaleSnapshot ==
    [][pc = "selectors" =>
          \A n \in (Len(hist) + 1)..Len(hist') :
              /\ hist'[n].phase = "selector" /\ hist'[n].who = out.i
              /\ InSeq(hist'[n].id, ItemIdsOf(out.i))
              /\ InSeq(hist'[n].id, getMatchingItemIds(inp.heap0, inp.dbItems,
                                                       inp.dynamicSelectors[out.i]).val)
              /\ MatchesOn(heap, inp.dynamicSelectors[out.i], hist'[n].id)]_vars

\* A pass without overwrites is over in which the first selector changed a
\* record that the second selector's query was false of before the pass and
\* is true of now; the second selector was applied and left it alone.
C28_Witness ==
    /\ pc = "done"
    /\ out.overwritesMetaData = <<>>
    /\ SelectorReported(1) /\ SelectorReported(2)
    /\ \E id \in Ids :
          /\ \E n \in 1..Len(hist) : hist[n].who = 1 /\ hist[n].id = id
          /\ ~(\E n \in 1..Len(hist) : hist[n].who = 2 /\ hist[n].id = id)
          /\ ~InSeq(id, ItemIdsOf(2))
          /\ ~Matches0(inp.dynamicSelectors[2], id)
          /\ MatchesOn(heap, inp.dynamicSelectors[2], id)

(***************************************************************************)
(* Records and the changes made to other records                           *)
(***************************************************************************)
\* The step logs a change of the record.
ChangeLogged(id) ==
    \E n \in (Len(hist) + 1)..Len(hist') : hist'[n].id = id

\* C29 as stated: a step of the pass changes the contents of no record
\* other than those it applies a change to.
C29_RecordIsolation ==
    [][\A id \in Ids :
          Deep(heap', Record(id)) # Deep(heap, Record(id)) => ChangeLogged(id)]_vars

(***************************************************************************)
(* Multiply and set within one selector                                    *)
(***************************************************************************)
\* The changes the step logs, and those of them made to the record.
NewEvents == SubSeq(hist', Len(hist) + 1, Len(hist'))
EventsOn(id) == SelectSeq(NewEvents, LAMBDA e : e.id = id)

\* C30: in the step of a selector, every change a record gets from the
\* selector's multiply comes before every change it gets from the set; a
\* property that was multiplied and is named by the set with a number holds
\* the set's number after the step; and the count logged for the selector is
\* the number of changes by multiply plus the number of changes by set.
C30_MultiplyBeforeSet ==
    [][pc = "selectors" /\ pc' # "aborted" /\ out.selectorsMetaData[out.i].isValid =>
          /\ \A id \in Ids :
                /\ \A m, n \in 1..Len(EventsOn(id)) :
                       EventsOn(id)[m].type = "MULTIPLY" /\ EventsOn(id)[n].type = "SET_VALUE"
                       => m < n
                /\ \A n \in 1..Len(EventsOn(id)) :
                       (/\ EventsOn(id)[n].type = "MULTIPLY"
                        /\ Lookup(inp.dynamicSelectors[out.i].set, EventsOn(id)[n].key).t = "number")
                       => Walk(heap', Properties(heap', id), EventsOn(id)[n].key).val
                              = Lookup(inp.dynamicSelectors[out.i].set, EventsOn(id)[n].key)
          /\ out'.results[Len(out'.results)].changeCount =
                 Len(SelectSeq(NewEvents, LAMBDA e : e.type = "MULTIPLY"))
                 + Len(SelectSeq(NewEvents, LAMBDA e : e.type = "SET_VALUE"))]_vars

\* A selector with a multiply and a set of the same property changed a
\* record by both, and the record holds the set's value.
C30_Witness ==
    /\ pc = "done"
    /\ \E m, n \in 1..Len(hist) :
          /\ m < n
          /\ hist[m].phase = "selector" /\ hist[n].phase = "selector"
          /\ hist[m].who = hist[n].who /\ hist[m].id = hist[n].id
          /\ hist[m].key = hist[n].key
          /\ hist[m].type = "MULTIPLY" /\ hist[n].type = "SET_VALUE"
          /\ ~IsOverwritten(hist[m].id)
          /\ hist[m].who = Len(inp.dynamicSelectors)
          /\ Walk(heap, Properties(heap, hist[m].id), hist[m].key).val
                 = Lookup(inp.dynamicSelectors[hist[m].who].set, hist[m].key)

====
